---- MODULE Spec2Model ----
(***************************************************************************)
(* Trial orchestration engine of lab-runner (rust/crates/lab-runner):      *)
(* the run loop (run_experiment_with_behavior), the harness it spawns, the *)
(* operation lock, and the control operations pause_run, replay_trial,     *)
(* fork_trial and resume_run, as concurrent processes over the files of    *)
(* one run directory; the schedule builder (build_trial_schedule) and the  *)
(* retry, pruning and evidence steps of the run loop.                      *)
(*   Spec          one run of NumSlots trials beside all control operations*)
(*   StopSpec      one run of two trials beside pause_run                  *)
(*   LoopSpec      the run loop on its own, two variants, retry, pruning   *)
(*   ScheduleSpec  calls of build_trial_schedule                           *)
(*   ChainSpec     the run loop on its own, workspaces and chain state     *)
(***************************************************************************)
EXTENDS Integers, Sequences, FiniteSets, TLC

\* ---------------------------------------------------------------- bounds
NumSlots == 1          \* slots in the schedule of the run
MaxAttempts == 1       \* design.policies.retry.max_attempts of the run
MaxPauses == 2         \* pause_run calls that pass their checks and write an action
MaxDim == 2            \* variants, tasks and replications given to build_trial_schedule
MaxCalls == 2          \* build_trial_schedule calls with the same arguments
LoopTasks == 3         \* tasks of the experiments of the run loop on its own
LoopAttempts == 2      \* largest retry_max_attempts of those experiments
LoopFailures == 2      \* largest pruning_max_consecutive_failures of those experiments
ChainTasks == 2        \* tasks of the experiments whose trials form chains
MaxCheckpoints == 2    \* checkpoints a trial output declares
MaxTriggers == 2       \* triggers in a retry_on list given to should_retry_outcome
MaxLines == 2          \* lines of an event log given to has_control_ack
MaxBytes == 2          \* bytes of a file given to atomic_write_bytes
MaxChars == 1         \* characters of a variant id and of a chain label

None == "null"

\* trial ids are "trial_<N>" (lib.rs:1601)
TrialIdOf(n) == "trial_" \o ToString(n)
TrialIds == {TrialIdOf(n) : n \in 1..NumSlots}

Labels == {None, "manual_pause"}
IntegrationLevels == {"cli_basic", "cli_events"}
OpKinds == {"replay", "fork", "resume"}

VARIABLES
    lockFile,       \* runtime/operation.lock exists
    runControl,     \* runtime/run_control.json
    trialState,     \* trials/<id>/trial_state.json
    controlFile,    \* trials/<id>/state/lab_control.json
    eventLog,       \* the harness event log of each trial
    clock,          \* Utc::now() as seen by the writes of each control file
    config,         \* resolved_experiment.json: integration level, events path,
                    \* design (variants, tasks, replications, policies)
    run,            \* locals of run_experiment_with_behavior
    harness,        \* the harness child process
    pause,          \* locals of the pause_run call in progress
    op,             \* position of replay_trial, fork_trial and resume_run
    calls,          \* pause_run calls that have passed their checks so far
    hist,           \* the call that returned in the last step
    evidence,       \* runtime/evidence_records.jsonl, one record per line
    sched,          \* arguments and results of build_trial_schedule calls
    workspace,      \* trials/<id>/workspace of the trial in progress
    forks,          \* forks/<fork_id>/ and the files fork_trial reads
    files           \* trial_output.json of the trial in progress, or a file
                    \* under atomic_write_bytes with its temporary file

vars == <<lockFile, runControl, trialState, controlFile, eventLog, clock,
          config, run, harness, pause, op, calls, hist, evidence, sched,
          workspace, forks, files>>

\* ------------------------------------------------------------ file contents
NoRunControl == [status |-> "absent", active_trial_id |-> None,
                 active_control_path |-> None]

NoTrialState == [status |-> "absent", pause_label |-> None,
                 checkpoint_selected |-> None, exit_reason |-> None]

NoControlFile == [seq |-> 0, action |-> "absent", label |-> None,
                  requested_at |-> 0, requested_by |-> "nobody"]

\* resolve_control_paths, local mode: <trial_dir>/state/lab_control.json
control_path_host(trial_id) == trial_id \o "/state/lab_control.json"

ControlPaths == {control_path_host(t) : t \in TrialIds}

\* write_run_control: the payload written to run_control.json
RunControlPayload(status, active_trial_id, active_control_path) ==
    [status |-> status, active_trial_id |-> active_trial_id,
     active_control_path |-> active_control_path]

\* write_trial_state: the payload written to trial_state.json
TrialStatePayload(status, pause_label, checkpoint_selected, exit_reason) ==
    [status |-> status, pause_label |-> pause_label,
     checkpoint_selected |-> checkpoint_selected, exit_reason |-> exit_reason]

\* write_control_action: the payload written to the control file
ControlPayload(seq, action, label, requested_by, now) ==
    [seq |-> seq, action |-> action, label |-> label,
     requested_at |-> now, requested_by |-> requested_by]

\* a digest that does not depend on the bytes
sha256_constant(payload) == <<0>>

\* control_version = sha256 of the written bytes: one digest per payload
sha256_bytes(payload) ==
    <<payload.seq, payload.action, payload.label, payload.requested_at,
      payload.requested_by>>

\* read_control_seq: 0 when the file is missing
read_control_seq(path) ==
    IF controlFile[path].action = "absent" THEN 0 ELSE controlFile[path].seq

\* an ack matcher that does not read the log
has_control_ack_unread(log, action, control_version) == TRUE

\* a line of an event log is the record of the string fields of a JSON object,
\* or text that serde_json::from_str rejects (1250-1257), held as [text: ...]
is_json_line(line) == "text" \notin DOMAIN line

\* parsed.get(key).and_then(as_str).unwrap_or(default)
json_str_or(parsed, key, default) ==
    IF key \in DOMAIN parsed THEN parsed[key] ELSE default

\* an ack matcher that takes an ack of any control_version
has_control_ack_any_version(log, action, control_version) ==
    \E i \in 1..Len(log) :
        /\ is_json_line(log[i])
        /\ json_str_or(log[i], "event_type", "") = "control_ack"
        /\ json_str_or(log[i], "action_observed", "") = action

\* has_control_ack (1244-1279): some line parses, is a control_ack, observed
\* action and carries control_version; a digest is a tuple and the empty
\* string that stands for a missing control_version is the empty tuple
has_control_ack(log, action, control_version) ==
    \E i \in 1..Len(log) :
        /\ is_json_line(log[i])
        /\ json_str_or(log[i], "event_type", "") = "control_ack"
        /\ json_str_or(log[i], "action_observed", "") = action
        /\ json_str_or(log[i], "control_version", <<>>) = control_version

\* a retry decision that ignores the configured triggers
should_retry_always(outcome, exit_status, retry_on) == TRUE

\* a retry decision that looks at the first trigger only
should_retry_first_trigger(outcome, exit_status, retry_on) ==
    IF retry_on = <<>>
    THEN outcome = "error" \/ exit_status # "0"
    ELSE \/ retry_on[1] = "error" /\ outcome = "error"
         \/ retry_on[1] = "failure" /\ exit_status # "0"
         \/ retry_on[1] = "timeout" /\ outcome = "timeout"

\* should_retry_outcome (3176-3190)
should_retry_outcome(outcome, exit_status, retry_on) ==
    IF retry_on = <<>>
    THEN outcome = "error" \/ exit_status # "0"
    ELSE \E i \in 1..Len(retry_on) :
            \/ retry_on[i] = "error" /\ outcome = "error"
            \/ retry_on[i] = "failure" /\ exit_status # "0"
            \/ retry_on[i] = "timeout" /\ outcome = "timeout"

\* ------------------------------------------------------ build_trial_schedule
\* TrialSlot (3104-3109)
TrialSlot(variant_idx, task_idx, repl_idx) ==
    [variant_idx |-> variant_idx, task_idx |-> task_idx, repl_idx |-> repl_idx]

\* for repl_idx in 0..replications { slots.push(..) }
RECURSIVE ReplicationLoop(_, _, _, _)
ReplicationLoop(variant_idx, task_idx, repl_idx, replications) ==
    IF repl_idx >= replications THEN <<>>
    ELSE <<TrialSlot(variant_idx, task_idx, repl_idx)>>
         \o ReplicationLoop(variant_idx, task_idx, repl_idx + 1, replications)

\* VariantSequential: for task_idx in 0..task_count, inside one variant
RECURSIVE SequentialTaskLoop(_, _, _, _)
SequentialTaskLoop(variant_idx, task_idx, task_count, replications) ==
    IF task_idx >= task_count THEN <<>>
    ELSE ReplicationLoop(variant_idx, task_idx, 0, replications)
         \o SequentialTaskLoop(variant_idx, task_idx + 1, task_count,
                               replications)

\* VariantSequential: for variant_idx in 0..variant_count
RECURSIVE SequentialVariantLoop(_, _, _, _)
SequentialVariantLoop(variant_idx, variant_count, task_count, replications) ==
    IF variant_idx >= variant_count THEN <<>>
    ELSE SequentialTaskLoop(variant_idx, 0, task_count, replications)
         \o SequentialVariantLoop(variant_idx + 1, variant_count, task_count,
                                  replications)

\* the VariantSequential arm (3121-3133), also the start of the Randomized arm
variant_sequential(variant_count, task_count, replications) ==
    SequentialVariantLoop(0, variant_count, task_count, replications)

\* PairedInterleaved: for variant_idx in 0..variant_count, inside one task
RECURSIVE PairedVariantLoop(_, _, _, _)
PairedVariantLoop(task_idx, variant_idx, variant_count, replications) ==
    IF variant_idx >= variant_count THEN <<>>
    ELSE ReplicationLoop(variant_idx, task_idx, 0, replications)
         \o PairedVariantLoop(task_idx, variant_idx + 1, variant_count,
                              replications)

\* PairedInterleaved: for task_idx in 0..task_count
RECURSIVE PairedTaskLoop(_, _, _, _)
PairedTaskLoop(task_idx, variant_count, task_count, replications) ==
    IF task_idx >= task_count THEN <<>>
    ELSE PairedVariantLoop(task_idx, 0, variant_count, replications)
         \o PairedTaskLoop(task_idx + 1, variant_count, task_count,
                           replications)

\* a paired arm with the variant loop outermost
paired_variant_major(variant_count, task_count, replications) ==
    SequentialVariantLoop(0, variant_count, task_count, replications)

\* the PairedInterleaved arm (3134-3146)
paired_interleaved(variant_count, task_count, replications) ==
    PairedTaskLoop(0, variant_count, task_count, replications)

\* a u64 is kept as a tuple of eight bytes, least significant first

\* the bytes of a seed below 2^31
U64(n) ==
    <<n % 256, (n \div 256) % 256, (n \div 65536) % 256,
      (n \div 16777216) % 256, 0, 0, 0, 0>>

\* 6364136223846793005 = 0x5851F42D4C957F2D (3165)
LcgMultiplier == <<45, 127, 149, 76, 45, 244, 81, 88>>

\* 1442695040888963407 = 0x14057B7EF767814F (3166)
LcgIncrement == <<79, 129, 103, 247, 126, 123, 5, 20>>

\* the carry into byte k of a tuple of column sums
RECURSIVE CarryInto(_, _)
CarryInto(columns, k) ==
    IF k = 1 THEN 0
    ELSE (columns[k - 1] + CarryInto(columns, k - 1)) \div 256

\* byte k of the column sums reduced modulo 2^64
WrapByte(columns, k) == (columns[k] + CarryInto(columns, k)) % 256

\* column sums reduced modulo 2^64
Wrap64(columns) ==
    <<WrapByte(columns, 1), WrapByte(columns, 2), WrapByte(columns, 3),
      WrapByte(columns, 4), WrapByte(columns, 5), WrapByte(columns, 6),
      WrapByte(columns, 7), WrapByte(columns, 8)>>

\* the sum of a[i] * b[k + 1 - i] for i in 1..i
RECURSIVE ColumnProduct(_, _, _, _)
ColumnProduct(a, b, k, i) ==
    IF i < 1 THEN 0 ELSE a[i] * b[k + 1 - i] + ColumnProduct(a, b, k, i - 1)

\* u64::wrapping_mul
wrapping_mul(a, b) ==
    Wrap64(<<ColumnProduct(a, b, 1, 1), ColumnProduct(a, b, 2, 2),
             ColumnProduct(a, b, 3, 3), ColumnProduct(a, b, 4, 4),
             ColumnProduct(a, b, 5, 5), ColumnProduct(a, b, 6, 6),
             ColumnProduct(a, b, 7, 7), ColumnProduct(a, b, 8, 8)>>)

\* u64::wrapping_add
wrapping_add(a, b) ==
    Wrap64(<<a[1] + b[1], a[2] + b[2], a[3] + b[3], a[4] + b[4],
             a[5] + b[5], a[6] + b[6], a[7] + b[7], a[8] + b[8]>>)

\* rng_state >> 33 (3167), a value below 2^31
ShiftRight33(a) ==
    (a[5] \div 2) + a[6] * 128 + a[7] * 32768 + a[8] * 8388608

\* a swap that only copies slot j to slot i
swap_copy(slots, i, j) == [slots EXCEPT ![i + 1] = slots[j + 1]]

\* slots.swap(i, j) (3168), indices from 0
swap(slots, i, j) ==
    [slots EXCEPT ![i + 1] = slots[j + 1], ![j + 1] = slots[i + 1]]

\* a generator state taken from the number of schedules built so far
rng_state_from_calls(random_seed) == U64(random_seed + Len(sched.results))

\* let mut rng_state: u64 = random_seed (3161)
rng_state_init(random_seed) == U64(random_seed)

\* the Fisher-Yates loop: for i in (1..slots.len()).rev() (3162-3169)
RECURSIVE FisherYates(_, _, _)
FisherYates(slots, rng_state, i) ==
    IF i < 1 THEN slots
    ELSE LET next_state == wrapping_add(wrapping_mul(rng_state, LcgMultiplier),
                                        LcgIncrement)
             j == ShiftRight33(next_state) % (i + 1)
         IN FisherYates(swap(slots, i, j), next_state, i - 1)

\* the Randomized arm (3147-3170)
randomized(variant_count, task_count, replications, random_seed) ==
    LET slots == variant_sequential(variant_count, task_count, replications)
    IN FisherYates(slots, rng_state_init(random_seed), Len(slots) - 1)

\* build_trial_schedule (3111-3174)
build_trial_schedule(variant_count, task_count, replications, scheduling, random_seed) ==
    CASE scheduling = "variant_sequential" ->
            variant_sequential(variant_count, task_count, replications)
      [] scheduling = "paired_interleaved" ->
            paired_interleaved(variant_count, task_count, replications)
      [] scheduling = "randomized" ->
            randomized(variant_count, task_count, replications, random_seed)

SchedulingPolicies == {"variant_sequential", "paired_interleaved", "randomized"}

\* no call of build_trial_schedule is being observed
NoSchedule == [variant_count |-> 0, task_count |-> 0, replications |-> 0,
               scheduling |-> "variant_sequential", random_seed |-> 1,
               results |-> <<>>]

\* an acquisition that opens the lock file without create_new
acquire_without_create_new(lockExists) == "ok"

\* acquire_run_operation_lock: create_new succeeds only when the file is absent
acquire_run_operation_lock(lockExists) ==
    IF lockExists THEN "operation_in_progress" ELSE "ok"

\* a lock guard whose drop leaves the file in place
RunOperationLockLeak(lockExists) == lockExists

\* Drop for RunOperationLock: the lock file is removed
RunOperationLockDrop(lockExists) == FALSE

\* run_control.json, the trial_state.json files and the control files
StateFiles == <<runControl, trialState, controlFile>>

\* -------------------------------------------------- workspaces and chains
\* the entries a workspace directory can hold: a file that the tasks and the
\* harness write, and a name that the harness can make a symbolic link
WorkspacePaths == {"state.txt", "latest"}

NoEntry == [kind |-> "absent", digest |-> 0]
RegularFile(digest) == [kind |-> "file", digest |-> digest]
\* a symbolic link; its target is state.txt in the same directory
SymbolicLink == [kind |-> "symlink", digest |-> 0]
LinkTarget == "state.txt"

EmptyDir == [p \in WorkspacePaths |-> NoEntry]

\* the project root that TrialPaths::prepare copies into a new workspace
ProjectFiles == [p \in WorkspacePaths |->
                    IF p = "state.txt" THEN RegularFile(1) ELSE NoEntry]

\* copy_dir_filtered (4924-4975): files are copied; a symbolic link is resolved
\* (fs::canonicalize) and the file it names is copied in its place, a broken
\* link is kept as a link; what dst holds beside that stays
copy_dir_filtered(src, dst) ==
    [p \in WorkspacePaths |->
        IF src[p].kind = "file" THEN src[p]
        ELSE IF src[p].kind = "symlink"
        THEN IF src[LinkTarget].kind = "file"
             THEN RegularFile(src[LinkTarget].digest)
             ELSE src[p]
        ELSE dst[p]]

\* TrialPaths::prepare (4006-4034): the workspace of a new trial directory
prepare == copy_dir_filtered(ProjectFiles, EmptyDir)

\* a restore that leaves the prepared workspace as it is
restore_nothing(snapshot_dir, workspace_dir) == workspace_dir

\* restore_workspace_from_snapshot (4287-4294)
restore_workspace_from_snapshot(snapshot_dir, workspace_dir) ==
    copy_dir_filtered(snapshot_dir, EmptyDir)

\* materialize_workspace_files (3857-3893): every declared file is written
\* with atomic_write_bytes, which replaces what the path held
materialize_workspace_files(workspace_dir, workspace_files) ==
    [p \in WorkspacePaths |->
        IF p \in DOMAIN workspace_files
        THEN RegularFile(workspace_files[p])
        ELSE workspace_dir[p]]

\* collect_workspace_snapshot_manifest (4186-4224): path and digest of every
\* entry whose file type is a regular file
collect_workspace_snapshot_manifest(workspace_dir) ==
    {<<p, workspace_dir[p].digest>> :
        p \in {q \in WorkspacePaths : workspace_dir[q].kind = "file"}}

\* what the harness does to its workspace while it runs
HarnessWrites == {"none", "edit", "link"}

harness_write(kind, workspace_dir) ==
    IF kind = "edit"
    THEN [workspace_dir EXCEPT !["state.txt"] =
            RegularFile(IF @.kind = "file" THEN @.digest + 1 ELSE 2)]
    ELSE IF kind = "link"
    THEN [workspace_dir EXCEPT !["latest"] = SymbolicLink]
    ELSE workspace_dir

StatePolicies == {"isolate_per_trial", "persist_per_task", "accumulate"}

\* a dataset task: its chain_id, its policy_override.state_policy and its
\* workspace_files (path to digest of the content), each of them optional
Task(chain_id, state_policy, workspace_files) ==
    [chain_id |-> chain_id, state_policy |-> state_policy,
     workspace_files |-> workspace_files]

NoWorkspaceFiles == [p \in {} |-> 0]
PlainTask == Task(None, None, NoWorkspaceFiles)

\* 1577-1582: the id of a task that carries none
TaskIdOf(task_idx) == "task_" \o ToString(task_idx)

\* resolve_variant_plan (3200-3233): the ids of the variants, all different
VariantIdOf(variant_idx) ==
    IF variant_idx = 0 THEN "baseline" ELSE "variant_" \o ToString(variant_idx)

\* resolve_effective_task_policy (2502-2546), state policy
resolve_effective_task_policy(experiment_state, task) ==
    IF task.state_policy \in StatePolicies THEN task.state_policy
    ELSE experiment_state

\* resolve_chain_label (4296-4314)
resolve_chain_label(task, task_id, state_policy) ==
    IF task.chain_id # None THEN task.chain_id
    ELSE IF state_policy = "accumulate" THEN "global"
    ELSE task_id

\* 1593: chain_key
chain_key_of(variant_idx, chain_label) ==
    VariantIdOf(variant_idx) \o "::" \o chain_label

\* ChainRuntimeState (2361-2367); the two paths are directories of the run,
\* held here by what they contain
ChainRuntimeState(root_ref, root_path, latest_ref, latest_path, step_index) ==
    [chain_root_snapshot_ref |-> root_ref,
     chain_root_snapshot_path |-> root_path,
     latest_snapshot_ref |-> latest_ref,
     latest_snapshot_path |-> latest_path,
     step_index |-> step_index]

\* BTreeMap::insert
map_insert(map, key, value) ==
    [k \in DOMAIN map \cup {key} |-> IF k = key THEN value ELSE map[k]]

NoChains == [k \in {} |-> 0]

\* ------------------------------------------- checkpoints and fork selectors
Ok(value) == [ok |-> TRUE, code |-> "ok", value |-> value]
Err(code) == [ok |-> FALSE, code |-> code, value |-> None]

CheckpointNames == {"a", "b"}

\* the path under which a harness declares the checkpoint of a name (5342)
checkpoint_path(logical_name) == "/state/ckpt_" \o logical_name

\* an entry of "checkpoints" in trial_output.json; step is <<>> when the
\* entry has no "step"
CheckpointEntry(logical_name, step) ==
    [logical_name |-> logical_name, path |-> checkpoint_path(logical_name),
     step |-> step]

\* the steps that the entries carry
CheckpointSteps == {<<>>, <<1>>, <<2>>}

\* the numbers that selectors name: below, at and above the steps
SelectorSteps == 0..3

CheckpointEntries ==
    {CheckpointEntry(n, s) : n \in CheckpointNames, s \in CheckpointSteps}

\* the "checkpoints" arrays of at most MaxCheckpoints entries
CheckpointLists == UNION {[1..n -> CheckpointEntries] : n \in 0..MaxCheckpoints}

\* trial_output.json of the parent trial: <<>> when the file is missing,
\* else <<checkpoints>>
NoTrialOutput == <<>>
TrialOutputs == {NoTrialOutput} \cup {<<c>> : c \in CheckpointLists}

\* 1103-1107, 1314-1318: the "checkpoints" array, empty when there is none
checkpoints_of(trial_output) ==
    IF trial_output = NoTrialOutput THEN <<>> ELSE trial_output[1]

\* resolve_event_path_for_trial: a /state path lies under <trial_dir>/state
resolve_event_path_for_trial(events_path, trial_dir) ==
    "trials/" \o trial_dir \o events_path

\* format!("{}:{}", kind, value): the text of a selector, kept as the two
\* halves that split_once(':') gives back; a text without ':' has one half
selector_text(kind, value) == <<kind, value>>

\* str::parse::<u64> on the decimal texts of SelectorSteps; <<>> is Err
parse_u64(value) ==
    IF \E n \in SelectorSteps : ToString(n) = value
    THEN <<CHOOSE n \in SelectorSteps : ToString(n) = value>>
    ELSE <<>>

\* enum ForkSelector (65-69)
ForkSelector(kind, name, n) == [kind |-> kind, name |-> name, n |-> n]

\* parse_fork_selector; value.trim().is_empty() for "" and " "
parse_fork_selector(selector) ==
    IF Len(selector) # 2 THEN Err("invalid selector")
    ELSE LET kind == selector[1]
             value == selector[2]
         IN CASE kind = "checkpoint" ->
                   IF value \in {"", " "} THEN Err("invalid selector")
                   ELSE Ok(ForkSelector("Checkpoint", value, 0))
              [] kind = "step" ->
                   IF parse_u64(value) = <<>> THEN Err("invalid selector")
                   ELSE Ok(ForkSelector("Step", "", parse_u64(value)[1]))
              [] kind = "event_seq" ->
                   IF parse_u64(value) = <<>> THEN Err("invalid selector")
                   ELSE Ok(ForkSelector("EventSeq", "", parse_u64(value)[1]))
              [] OTHER -> Err("invalid selector kind")

\* Iterator::find (1321-1324): the index of the first entry whose
\* logical_name or path is name, <<>> when there is none
RECURSIVE find_checkpoint(_, _, _)
find_checkpoint(checkpoints, name, i) ==
    IF i > Len(checkpoints) THEN <<>>
    ELSE IF checkpoints[i].logical_name = name \/ checkpoints[i].path = name
    THEN <<i>>
    ELSE find_checkpoint(checkpoints, name, i + 1)

\* a selection by step that does not filter the entries by the step asked for
RECURSIVE max_by_key_unfiltered(_, _, _, _)
max_by_key_unfiltered(checkpoints, step, i, best) ==
    IF i > Len(checkpoints) THEN best
    ELSE LET cp == checkpoints[i]
         IN max_by_key_unfiltered(checkpoints, step, i + 1,
                IF cp.step = <<>> THEN best
                ELSE IF best # <<>> /\ cp.step[1] < checkpoints[best[1]].step[1]
                THEN best
                ELSE <<i>>)

\* filter_map, filter and Iterator::max_by_key (1325-1342): among the entries
\* with a step of at most step, the last of those with the largest step
RECURSIVE max_by_key(_, _, _, _)
max_by_key(checkpoints, step, i, best) ==
    IF i > Len(checkpoints) THEN best
    ELSE LET cp == checkpoints[i]
         IN max_by_key(checkpoints, step, i + 1,
                IF cp.step = <<>> \/ cp.step[1] > step THEN best
                ELSE IF best # <<>> /\ cp.step[1] < checkpoints[best[1]].step[1]
                THEN best
                ELSE <<i>>)

\* 1320-1343: the entry a selector selects
selected_checkpoint(selector, checkpoints) ==
    IF selector.kind = "Checkpoint"
    THEN find_checkpoint(checkpoints, selector.name, 1)
    ELSE max_by_key(checkpoints, selector.n, 1, <<>>)

\* resolve_selector_checkpoint: Ok(None) or Ok(the resolved path); existing is
\* the set of paths that exist on disk
resolve_selector_checkpoint(selector, trial_output, trial_dir, strict, existing) ==
    LET checkpoints == checkpoints_of(trial_output)
        selected == selected_checkpoint(selector, checkpoints)
    IN IF selected = <<>>
       THEN IF strict THEN Err("strict_source_unavailable") ELSE Ok(None)
       ELSE LET raw_path == checkpoints[selected[1]].path
                resolved == resolve_event_path_for_trial(raw_path, trial_dir)
            IN IF strict /\ resolved \notin existing
               THEN Err("strict_source_unavailable")
               ELSE IF resolved \in existing THEN Ok(resolved) ELSE Ok(None)

\* 1128-1136: the index of the entry with the largest step, the first of
\* them when several have it; <<>> when no entry has a step
RECURSIVE best_with_step(_, _, _)
best_with_step(checkpoints, i, best) ==
    IF i > Len(checkpoints) THEN best
    ELSE LET cp == checkpoints[i]
         IN best_with_step(checkpoints, i + 1,
                IF cp.step = <<>> THEN best
                ELSE IF best # <<>> /\ cp.step[1] <= checkpoints[best[1]].step[1]
                THEN best
                ELSE <<i>>)

\* resolve_resume_selector
resolve_resume_selector(trial_output, preferred_label) ==
    LET checkpoints == checkpoints_of(trial_output)
    IN IF trial_output = NoTrialOutput THEN Err("resume_no_trial_output")
       ELSE IF checkpoints = <<>> THEN Err("resume_no_checkpoint")
       ELSE IF preferred_label # None
       THEN IF find_checkpoint(checkpoints, preferred_label, 1) = <<>>
            THEN Err("resume_checkpoint_not_found")
            ELSE Ok(selector_text("checkpoint", preferred_label))
       ELSE LET best == best_with_step(checkpoints, 1, <<>>)
                chosen == IF best # <<>> THEN checkpoints[best[1]]
                          ELSE checkpoints[Len(checkpoints)]
            IN Ok(selector_text("checkpoint", chosen.logical_name))

\* forks/ is empty, and the parent trial has written no output
NoForks == [trial_output |-> NoTrialOutput, existing |-> {}, dirs |-> <<>>]

\* a file: it exists or not, and its bytes
NoFile == [exists |-> FALSE, bytes |-> <<>>]
File(bytes) == [exists |-> TRUE, bytes |-> bytes]

\* before a run no trial has written a trial_output.json
NoFiles == [trial_output |-> NoFile]

\* ------------------------------------------------------------------- Init
RunInit == [pc |-> "init", schedule |-> <<>>, slot |-> 0,
            consecutive_failures |-> <<>>, pruned_variants |-> {},
            trial_index |-> 0, attempt |-> 0, spawned |-> 0, status |-> "",
            outcome |-> "error", run_paused |-> FALSE, trial_guard |-> "none",
            run_guard |-> "none", result |-> "none",
            chain_states |-> NoChains, pre_snapshot_manifest |-> {},
            chain_root_snapshot |-> <<>>]

HarnessInit == [alive |-> FALSE, trial |-> None]

PauseIdle == [pc |-> "idle", label |-> None,
              target_trial |-> None, control_path |-> None, seq |-> 0,
              checkpoint_version |-> <<>>, stop_version |-> <<>>]

\* PauseResult (1020-1026)
PauseResult(trial_id, label) ==
    [trial_id |-> trial_id, label |-> label, checkpoint_acked |-> TRUE,
     stop_acked |-> TRUE]

NoReturn == [op |-> "none", result |-> "none", call |-> PauseIdle,
             value |-> None, before |-> <<>>]

\* a call returned result; locals are those of a pause_run call at its return,
\* value is the Ok value, before are the state files as the call found them
Returned(operation, result, locals, value, before) ==
    [op |-> operation, result |-> result, call |-> locals, value |-> value,
     before |-> before]

\* before run_experiment_with_behavior is called: no file of the run exists;
\* the experiment is one of experiments and has at most trial_count trials
BeforeRun(trial_count, experiments) ==
    LET trials == {TrialIdOf(n) : n \in 1..trial_count}
        paths == {control_path_host(t) : t \in trials}
    IN /\ lockFile = FALSE
       /\ runControl = NoRunControl
       /\ trialState = [t \in trials |-> NoTrialState]
       /\ controlFile = [p \in paths |-> NoControlFile]
       /\ eventLog = [t \in trials |-> <<>>]
       /\ clock = [p \in paths |-> 1]
       /\ config \in experiments
       /\ run = RunInit
       /\ harness = HarnessInit
       /\ pause = PauseIdle
       /\ op = [k \in OpKinds |-> "idle"]
       /\ calls = 0
       /\ hist = NoReturn
       /\ evidence = <<>>
       /\ workspace = EmptyDir
       /\ forks = NoForks
       /\ files = NoFiles

\* experiments of one variant and one replication with the default policies
\* (2378-2388) and MaxAttempts attempts per trial
SingleVariantExperiments(task_count) ==
    [integration_level : IntegrationLevels, events_path : BOOLEAN,
     variant_count : {1}, task_count : {task_count}, replications : {1},
     scheduling : {"variant_sequential"}, random_seed : {1},
     retry_max_attempts : {MaxAttempts}, retry_on : {<<>>},
     pruning_max_consecutive_failures : {<<>>},
     state : {"isolate_per_trial"},
     tasks : {[i \in 1..task_count |-> PlainTask]},
     harness_write : {"none"}]

\* a run of NumSlots trials
Init ==
    /\ BeforeRun(NumSlots, SingleVariantExperiments(NumSlots))
    /\ sched = NoSchedule

\* ------------------------------------------------- run_experiment_with_behavior
CurrentTrial == TrialIdOf(run.trial_index)

\* validation or executor error before the run directory exists (1451-1485)
RunEntryRejected ==
    /\ run.pc = "init"
    /\ run' = [run EXCEPT !.pc = "returned", !.result = "err"]
    /\ hist' = NoReturn
    /\ UNCHANGED <<evidence, sched, workspace, forks, files>>
    /\ UNCHANGED <<lockFile, runControl, trialState, controlFile, eventLog,
                   clock, config, harness, pause, op, calls>>

\* 1487-1562: run directory, run_control.json{running}, RunControlGuard::new,
\* then resolved experiment, manifest, dataset, harness and schedule
RunStart ==
    /\ run.pc = "init"
    /\ runControl' = RunControlPayload("running", None, None)
    /\ run' = [run EXCEPT
            !.pc = "schedule", !.run_guard = "armed",
            !.schedule = build_trial_schedule(config.variant_count,
                                              config.task_count,
                                              config.replications,
                                              config.scheduling,
                                              config.random_seed),
            !.consecutive_failures =
                [v \in 0..(config.variant_count - 1) |-> 0]]
    /\ hist' = NoReturn
    /\ UNCHANGED <<evidence, sched, workspace, forks, files>>
    /\ UNCHANGED <<lockFile, trialState, controlFile, eventLog, clock, config,
                   harness, pause, op, calls>>

\* a skip test that lets every slot through
slot_is_never_pruned(pruned_variants, slot) == FALSE

\* 1567: pruned_variants.contains(&slot.variant_idx)
slot_is_pruned(pruned_variants, slot) == slot.variant_idx \in pruned_variants

\* 1566-1570: the slots after the current one that the loop does not skip
RemainingSlots ==
    {i \in (run.slot + 1)..Len(run.schedule) :
        ~slot_is_pruned(run.pruned_variants, run.schedule[i])}

\* the slot of the trial in progress
CurrentSlot == run.schedule[run.slot]

\* 1573-1575: the task of the slot
CurrentTask == config.tasks[CurrentSlot.task_idx + 1]

\* 1583-1587
effective_state_policy ==
    resolve_effective_task_policy(config.state, CurrentTask)

\* 1588-1593
chain_key ==
    chain_key_of(CurrentSlot.variant_idx,
                 resolve_chain_label(CurrentTask,
                                     TaskIdOf(CurrentSlot.task_idx),
                                     effective_state_policy))

\* a step index that does not read the chain state
chain_step_index_zero(chain_states, key) == 0

\* 1595-1598: the step after the one the chain state holds, 0 without one
chain_step_index_of(chain_states, key) ==
    IF key \in DOMAIN chain_states THEN chain_states[key].step_index + 1
    ELSE 0

chain_step_index == chain_step_index_of(run.chain_states, chain_key)

\* 1566-1605: the loop skips the slots of pruned variants and takes the next
\* slot: trial id, trial_state.json{running}, TrialStateGuard::new
RunDispatch ==
    /\ run.pc = "schedule"
    /\ RemainingSlots # {}
    /\ LET id == TrialIdOf(run.trial_index + 1) IN
       trialState' = [trialState EXCEPT
                        ![id] = TrialStatePayload("running", None, None, None)]
    /\ run' = [run EXCEPT
            !.pc = "prepare", !.trial_index = @ + 1,
            !.slot = CHOOSE i \in RemainingSlots :
                        \A j \in RemainingSlots : i <= j,
            !.attempt = 0, !.spawned = 0, !.trial_guard = "armed"]
    /\ hist' = NoReturn
    /\ UNCHANGED <<evidence, sched, workspace, forks, files>>
    /\ UNCHANGED <<lockFile, runControl, controlFile, eventLog, clock, config,
                   harness, pause, op, calls>>

\* 1610-1617: the workspace of a trial that carries state is replaced by the
\* latest snapshot of its chain, when the chain has one
restore_chain_state(state_policy, chain_states, key, workspace_dir) ==
    IF state_policy # "isolate_per_trial" /\ key \in DOMAIN chain_states
    THEN restore_workspace_from_snapshot(
             chain_states[key].latest_snapshot_path, workspace_dir)
    ELSE workspace_dir

\* 1607-1701: the workspace is prepared, restored from the chain state and
\* given the workspace files of the task; input, metadata, then
\* run_control.json names the trial
RunActivate ==
    /\ run.pc = "prepare"
    /\ workspace' = materialize_workspace_files(
                        restore_chain_state(effective_state_policy,
                                            run.chain_states, chain_key,
                                            prepare),
                        CurrentTask.workspace_files)
    /\ runControl' = RunControlPayload("running", CurrentTrial,
                                       control_path_host(CurrentTrial))
    /\ run' = [run EXCEPT !.pc = "activated"]
    /\ hist' = NoReturn
    /\ UNCHANGED <<evidence, sched, forks, files>>
    /\ UNCHANGED <<lockFile, trialState, controlFile, eventLog, clock, config,
                   harness, pause, op, calls>>

\* write_control_file (4702-4705): continue, seq 0, requested by run_loop
write_control_file(now) == ControlPayload(0, "continue", None, "run_loop", now)

\* 1714-1728: the root snapshot of the chain: the one its state holds, or
\* the pre-snapshot and a copy of the workspace when the chain has no state
chain_root_snapshot_of(chain_states, key, pre_snapshot_manifest, workspace_dir) ==
    IF key \in DOMAIN chain_states
    THEN <<chain_states[key].chain_root_snapshot_ref,
           chain_states[key].chain_root_snapshot_path>>
    ELSE <<pre_snapshot_manifest, copy_dir_filtered(workspace_dir, EmptyDir)>>

\* 1702-1728: the control file of the trial is (re)written by the run loop,
\* then the pre-snapshot of the workspace and the chain root are taken
RunWriteControlFile ==
    /\ run.pc = "activated"
    /\ LET path == control_path_host(CurrentTrial) IN
       /\ controlFile' = [controlFile EXCEPT
                            ![path] = write_control_file(clock[path])]
       /\ clock' = [clock EXCEPT ![path] = @ + 1]
    /\ LET pre == collect_workspace_snapshot_manifest(workspace) IN
       run' = [run EXCEPT
                 !.pc = "retry_loop",
                 !.pre_snapshot_manifest = pre,
                 !.chain_root_snapshot =
                     chain_root_snapshot_of(run.chain_states, chain_key, pre,
                                            workspace)]
    /\ hist' = NoReturn
    /\ UNCHANGED <<evidence, sched, workspace, forks, files>>
    /\ UNCHANGED <<lockFile, runControl, trialState, eventLog, config, harness,
                   pause, op, calls>>

\* 1735-1794: one attempt of the retry loop spawns the harness
RunSpawn ==
    /\ run.pc = "retry_loop"
    /\ run.attempt < config.retry_max_attempts
    /\ harness' = [alive |-> TRUE, trial |-> CurrentTrial]
    /\ run' = [run EXCEPT !.pc = "waiting", !.spawned = @ + 1]
    /\ hist' = NoReturn
    /\ UNCHANGED <<evidence, sched, workspace, forks, files>>
    /\ UNCHANGED <<lockFile, runControl, trialState, controlFile, eventLog,
                   clock, config, pause, op, calls>>

\* the trial_output.json documents: what a harness declares, and the
\* document that the runner writes for a harness that declared nothing
\* (4620-4628)
trial_output_v1(outcome) ==
    [schema_version |-> "trial_output_v1", outcome |-> outcome]

fallback_output ==
    [schema_version |-> "trial_output_v1", outcome |-> "error",
     error |-> "harness_process_error"]

\* how a harness hands over its result: it writes the file named by
\* AGENTLAB_TRIAL_OUTPUT, it prints the document as its last line of stdout,
\* or it does neither
Deliveries == {"file", "stdout", "none"}

\* run_process_with_trial_io (4576-4645): trial_output.json after the child
\* has exited; output is the file as the child found it, and the stdout line
\* and the fallback are written only if the file does not exist
run_process_with_trial_io(output, delivery, produced) ==
    LET after_child == IF delivery = "file"
                       THEN File(trial_output_v1(produced)) ELSE output
        after_stdout == IF ~after_child.exists /\ delivery = "stdout"
                        THEN File(trial_output_v1(produced)) ELSE after_child
    IN IF ~after_stdout.exists THEN File(fallback_output) ELSE after_stdout

\* 1825-1835: the outcome read from trial_output.json
outcome_of(output) ==
    IF output.exists THEN json_str_or(output.bytes, "outcome", "error")
    ELSE "error"

\* 1795-1843: the harness exited with status and trial_output.json holds
\* outcome; retry (hist becomes retried) or leave the loop (hist becomes
\* left)
AttemptExit(status, outcome, retried, left) ==
    /\ run.pc = "waiting"
    /\ harness.alive
    /\ harness' = HarnessInit
    /\ workspace' = harness_write(config.harness_write, workspace)
    /\ LET is_last_attempt == run.attempt + 1 >= config.retry_max_attempts IN
       IF ~is_last_attempt
             /\ should_retry_outcome(outcome, status, config.retry_on)
       THEN /\ run' = [run EXCEPT !.pc = "retry_loop", !.attempt = @ + 1]
            /\ hist' = retried
       ELSE /\ run' = [run EXCEPT !.pc = "post", !.status = status,
                                  !.outcome = outcome]
            /\ hist' = left
    /\ UNCHANGED <<evidence, sched, forks>>
    /\ UNCHANGED <<lockFile, runControl, trialState, controlFile, eventLog,
                   clock, config, pause, op, calls>>

\* the harness exited and has written a trial_output.json with outcome, as
\* it does on every attempt; the file itself is not followed
AttemptDone(status, outcome, retried) ==
    /\ AttemptExit(status, outcome, retried, NoReturn)
    /\ UNCHANGED files

\* 1765-1843: the harness exited with status after it delivered the outcome
\* produced as delivery says; the attempt ends with the outcome that
\* trial_output.json then holds, and hist keeps the exit
RunAttemptOutput(status, delivery, produced) ==
    LET output == run_process_with_trial_io(files.trial_output, delivery,
                                            produced)
        exit == Returned("harness", produced, [delivery |-> delivery],
                         status, <<>>)
    IN /\ AttemptExit(status, outcome_of(output), exit, exit)
       /\ files' = [files EXCEPT !.trial_output = output]

\* the harness exits beside the control operations, whose returns hist follows
RunAttemptDone(status, outcome) == AttemptDone(status, outcome, NoReturn)

\* the harness exits and hist keeps the exit that made the loop retry
RunAttemptObserved(status, outcome) ==
    AttemptDone(status, outcome,
                Returned("harness", outcome, PauseIdle, status, <<>>))

\* a test that never sees a pause request
pause_requested_never(ctl) == FALSE

\* read_control_action (1200-1220) and the test at 2072-2075
pause_requested(ctl) ==
    ctl.action = "stop" /\ ctl.requested_by = "lab_pause"

\* a classification that looks at the exit status only
classify_by_status(status, outcome) ==
    IF status = "0"
    THEN TrialStatePayload("completed", None, None, None)
    ELSE TrialStatePayload("failed", None, None, "harness_exit_nonzero")

\* 2079-2111: the state of a trial that is not paused
classify_trial(status, outcome) ==
    IF status = "0" /\ outcome # "error"
    THEN TrialStatePayload("completed", None, None, None)
    ELSE IF status # "0"
    THEN TrialStatePayload("failed", None, None, "harness_exit_nonzero")
    ELSE TrialStatePayload("failed", None, None, "trial_output_error")

\* an append that opens the file with truncate
append_jsonl_truncate(file, value) == <<value>>

\* append_jsonl (4173-4184): the value becomes the last line of the file
append_jsonl(file, value) == Append(file, value)

\* 1935-1981: the ids, the policy and the snapshots of the evidence record of
\* the trial in progress; the snapshot refs are content addresses, held here
\* by the manifests they name, and post_workspace_snapshot_dir is the step
\* directory of the chain that the trial wrote (1872-1881)
evidence_record ==
    [trial_id |-> CurrentTrial, variant_idx |-> CurrentSlot.variant_idx,
     task_idx |-> CurrentSlot.task_idx, repl_idx |-> CurrentSlot.repl_idx,
     state_policy |-> effective_state_policy,
     chain_id |-> chain_key,
     chain_step_index |-> chain_step_index,
     workspace_pre_ref |-> run.pre_snapshot_manifest,
     workspace_post_ref |-> collect_workspace_snapshot_manifest(workspace),
     post_workspace_snapshot_dir |-> copy_dir_filtered(workspace, EmptyDir)]

\* a chain state that every trial updates
chain_states_always_inserted(state_policy, chain_states, key, state) ==
    map_insert(chain_states, key, state)

\* 1883-1894: the chain state after the post-snapshot of a trial
chain_states_after(state_policy, chain_states, key, state) ==
    IF state_policy # "isolate_per_trial"
    THEN map_insert(chain_states, key, state)
    ELSE chain_states

\* 1845-1894: the chain state that the trial in progress leaves
CurrentChainStates ==
    chain_states_after(
        effective_state_policy, run.chain_states, chain_key,
        ChainRuntimeState(run.chain_root_snapshot[1],
                          run.chain_root_snapshot[2],
                          collect_workspace_snapshot_manifest(workspace),
                          copy_dir_filtered(workspace, EmptyDir),
                          chain_step_index))

\* a counter that a completed trial leaves alone
failures_without_reset(count, status) ==
    IF status = "completed" THEN count ELSE count + 1

\* 2104, 2107, 2110: the consecutive failures of the variant after a trial
failures_after(count, status) ==
    IF status = "completed" THEN 0 ELSE count + 1

\* 2114-2122: the variant is pruned when the counter reached the maximum;
\* the Option is <<>> for None and <<k>> for Some(k)
pruning_check(max_failures, count) ==
    max_failures # <<>> /\ count >= max_failures[1]

\* 1845-2122: post-snapshot, the workspace is copied to the step directory of
\* the chain and the chain state is updated, the evidence record is appended,
\* then the trial is classified from the control file, the exit status and
\* the outcome, and the failure counter of its variant and the pruned
\* variants are updated
RunClassify ==
    /\ run.pc = "post"
    /\ evidence' = append_jsonl(evidence, evidence_record)
    /\ LET ctl == controlFile[control_path_host(CurrentTrial)]
           state == classify_trial(run.status, run.outcome)
           variant == CurrentSlot.variant_idx
           count == failures_after(run.consecutive_failures[variant],
                                   state.status)
       IN
       IF pause_requested(ctl)
       THEN /\ trialState' = [trialState EXCEPT ![CurrentTrial] =
                    TrialStatePayload("paused", ctl.label, ctl.label,
                                      "paused_by_user")]
            /\ run' = [run EXCEPT !.pc = "mark_paused", !.trial_guard = "done",
                                  !.status = "", !.outcome = "error",
                                  !.chain_states = CurrentChainStates,
                                  !.pre_snapshot_manifest = {},
                                  !.chain_root_snapshot = <<>>]
       ELSE /\ trialState' = [trialState EXCEPT ![CurrentTrial] = state]
            /\ run' = [run EXCEPT
                    !.pc = "trial_end", !.trial_guard = "done",
                    !.status = "", !.outcome = "error",
                    !.chain_states = CurrentChainStates,
                    !.pre_snapshot_manifest = {},
                    !.chain_root_snapshot = <<>>,
                    !.consecutive_failures[variant] = count,
                    !.pruned_variants =
                        IF pruning_check(
                               config.pruning_max_consecutive_failures, count)
                        THEN @ \cup {variant} ELSE @]
    /\ hist' = NoReturn
    /\ UNCHANGED <<sched, workspace, forks, files>>
    /\ UNCHANGED <<lockFile, runControl, controlFile, eventLog, clock, config,
                   harness, pause, op, calls>>

\* 2093-2101: the run is marked paused and the schedule loop is left
RunMarkPaused ==
    /\ run.pc = "mark_paused"
    /\ runControl' = RunControlPayload("paused", CurrentTrial,
                                       control_path_host(CurrentTrial))
    /\ run' = [run EXCEPT !.pc = "finalize", !.run_paused = TRUE,
                          !.attempt = 0, !.spawned = 0]
    /\ hist' = NoReturn
    /\ UNCHANGED <<evidence, sched, workspace, forks, files>>
    /\ UNCHANGED <<lockFile, trialState, controlFile, eventLog, clock, config,
                   harness, pause, op, calls>>

\* 2124-2125: between two trials run_control.json names no trial
RunTrialEnd ==
    /\ run.pc = "trial_end"
    /\ runControl' = RunControlPayload("running", None, None)
    /\ run' = [run EXCEPT !.pc = "schedule", !.attempt = 0, !.spawned = 0]
    /\ hist' = NoReturn
    /\ UNCHANGED <<evidence, sched, workspace, forks, files>>
    /\ UNCHANGED <<lockFile, trialState, controlFile, eventLog, clock, config,
                   harness, pause, op, calls>>

\* RunControlGuard::complete (290-295)
RunControlGuardComplete(status) == RunControlPayload(status, None, None)

\* 2128-2176: the loop is over: benchmark, analysis, attestation,
\* run_guard.complete, Ok(RunResult)
RunFinalize ==
    /\ \/ run.pc = "finalize"
       \/ run.pc = "schedule" /\ RemainingSlots = {}
    /\ runControl' = RunControlGuardComplete(IF run.run_paused THEN "paused"
                                             ELSE "completed")
    /\ run' = [run EXCEPT !.pc = "returned", !.run_guard = "done",
                          !.result = "ok"]
    /\ hist' = NoReturn
    /\ UNCHANGED <<evidence, sched, workspace, forks, files>>
    /\ UNCHANGED <<lockFile, trialState, controlFile, eventLog, clock, config,
                   harness, pause, op, calls>>

\* the places where a `?` leaves run_experiment_with_behavior with an error;
\* the writes of the state files themselves are taken to succeed
AbortablePcs == {"schedule", "prepare", "retry_loop", "post", "finalize"}

\* a trial guard whose drop writes nothing
TrialStateGuardNoDrop(guard, state) == state

\* Drop for TrialStateGuard (334-347)
TrialStateGuardDrop(guard, state) ==
    IF guard = "armed"
    THEN TrialStatePayload("failed", None, None, "aborted")
    ELSE state

\* a run guard whose drop writes nothing
RunControlGuardNoDrop(guard, control) == control

\* Drop for RunControlGuard (297-303)
RunControlGuardDrop(guard, control) ==
    IF guard = "armed"
    THEN RunControlPayload("failed", None, None)
    ELSE control

\* an error return: the guards are dropped, the trial guard first
RunAbort ==
    /\ run.pc \in AbortablePcs
    /\ trialState' = IF run.trial_index = 0 THEN trialState
                     ELSE [trialState EXCEPT ![CurrentTrial] =
                             TrialStateGuardDrop(run.trial_guard, @)]
    /\ runControl' = RunControlGuardDrop(run.run_guard, runControl)
    /\ run' = [run EXCEPT !.pc = "returned", !.run_guard = "done",
                          !.trial_guard = IF @ = "none" THEN "none" ELSE "done",
                          !.attempt = 0, !.spawned = 0, !.status = "",
                          !.outcome = "error", !.result = "err",
                          !.pre_snapshot_manifest = {},
                          !.chain_root_snapshot = <<>>]
    /\ hist' = NoReturn
    /\ UNCHANGED <<evidence, sched, workspace, forks, files>>
    /\ UNCHANGED <<lockFile, controlFile, eventLog, clock, config, harness,
                   pause, op, calls>>

\* ------------------------------------------------------------------ harness
\* the harness reads the control file and acknowledges a checkpoint or stop
\* action with its control_version, once (as the ack writer at 5164-5220)
HarnessAck ==
    /\ harness.alive
    /\ LET path == control_path_host(harness.trial)
           ctl == controlFile[path]
           version == sha256_bytes(ctl)
           ack == [event_type |-> "control_ack",
                   action_observed |-> ctl.action,
                   control_version |-> version]
       IN /\ ctl.action \in {"checkpoint", "stop"}
          /\ \A i \in 1..Len(eventLog[harness.trial]) :
                eventLog[harness.trial][i] # ack
          /\ eventLog' = [eventLog EXCEPT ![harness.trial] = Append(@, ack)]
    /\ hist' = NoReturn
    /\ UNCHANGED <<evidence, sched, workspace, forks, files>>
    /\ UNCHANGED <<lockFile, runControl, trialState, controlFile, clock,
                   config, run, harness, pause, op, calls>>

\* ---------------------------------------------------------------- pause_run
\* the checks of pause_run without the comparison of the target with the
\* active trial
pause_preconditions_no_target_check(rc, trial_id, cfg, dir_exists) ==
    IF rc.status = "absent" THEN "io_error"
    ELSE IF rc.status # "running" THEN "pause_non_running"
    ELSE IF trial_id = None /\ rc.active_trial_id = None
         THEN "pause_no_active_trial"
    ELSE IF rc.active_control_path = None THEN "pause_missing_control_path"
    ELSE IF cfg.integration_level = "cli_basic"
         THEN "unsupported_for_integration_level"
    ELSE IF ~cfg.events_path THEN "pause_requires_events_path"
    ELSE IF ~dir_exists THEN "pause_trial_not_found"
    ELSE "ok"

\* the checks of pause_run without the test for a missing active trial
pause_preconditions_no_active_check(rc, trial_id, cfg, dir_exists) ==
    IF rc.status = "absent" THEN "io_error"
    ELSE IF rc.status # "running" THEN "pause_non_running"
    ELSE IF trial_id # None /\ rc.active_trial_id # None
            /\ rc.active_trial_id # trial_id THEN "pause_target_not_active"
    ELSE IF rc.active_control_path = None THEN "pause_missing_control_path"
    ELSE IF cfg.integration_level = "cli_basic"
         THEN "unsupported_for_integration_level"
    ELSE IF ~cfg.events_path THEN "pause_requires_events_path"
    ELSE IF ~dir_exists THEN "pause_trial_not_found"
    ELSE "ok"

\* the checks of pause_run without the test of the events path
pause_preconditions_no_events_check(rc, trial_id, cfg, dir_exists) ==
    IF rc.status = "absent" THEN "io_error"
    ELSE IF rc.status # "running" THEN "pause_non_running"
    ELSE IF trial_id # None /\ rc.active_trial_id # None
            /\ rc.active_trial_id # trial_id THEN "pause_target_not_active"
    ELSE IF trial_id = None /\ rc.active_trial_id = None
         THEN "pause_no_active_trial"
    ELSE IF rc.active_control_path = None THEN "pause_missing_control_path"
    ELSE IF cfg.integration_level = "cli_basic"
         THEN "unsupported_for_integration_level"
    ELSE IF ~dir_exists THEN "pause_trial_not_found"
    ELSE "ok"

\* 920-976: the checks of pause_run, in the order of the code
pause_preconditions(rc, trial_id, cfg, dir_exists) ==
    IF rc.status = "absent" THEN "io_error"
    ELSE IF rc.status # "running" THEN "pause_non_running"
    ELSE IF trial_id # None /\ rc.active_trial_id # None
            /\ rc.active_trial_id # trial_id THEN "pause_target_not_active"
    ELSE IF trial_id = None /\ rc.active_trial_id = None
         THEN "pause_no_active_trial"
    ELSE IF rc.active_control_path = None THEN "pause_missing_control_path"
    ELSE IF cfg.integration_level = "cli_basic"
         THEN "unsupported_for_integration_level"
    ELSE IF ~cfg.events_path THEN "pause_requires_events_path"
    ELSE IF ~dir_exists THEN "pause_trial_not_found"
    ELSE "ok"

\* 938-951: the trial the pause is aimed at
pause_target_trial(rc, trial_id) ==
    IF trial_id # None THEN trial_id ELSE rc.active_trial_id

\* 973-976: the directory of the target trial exists
trial_dir_exists(trial_id) ==
    trial_id \in DOMAIN trialState /\ trialState[trial_id].status # "absent"

\* 980: the label defaults to "pause"
pause_label_of(label) == IF label = None THEN "pause" ELSE label

\* 916-976: the call takes the operation lock, or fails when it is taken;
\* a failed check returns its error and the lock guard is dropped; the label
\* is not read before the checks
PauseRejected(trial_id, label) ==
    /\ pause.pc = "idle"
    /\ calls < MaxPauses
    /\ LET locked == acquire_run_operation_lock(lockFile)
           target == pause_target_trial(runControl, trial_id)
           code == pause_preconditions(runControl, trial_id, config,
                                       trial_dir_exists(target))
       IN /\ locked = "ok" => code # "ok"
          /\ hist' = Returned("pause", IF locked = "ok" THEN code ELSE locked,
                              PauseIdle, None, StateFiles)
    /\ UNCHANGED <<evidence, sched, workspace, forks, files>>
    /\ UNCHANGED <<lockFile, runControl, trialState, controlFile, eventLog,
                   clock, config, run, harness, pause, op, calls>>

\* 916-984: the lock is taken and all checks pass; read_control_seq for the
\* checkpoint action
PauseAccepted(trial_id, label) ==
    /\ pause.pc = "idle"
    /\ calls < MaxPauses
    /\ acquire_run_operation_lock(lockFile) = "ok"
    /\ LET target == pause_target_trial(runControl, trial_id)
           code == pause_preconditions(runControl, trial_id, config,
                                       trial_dir_exists(target))
       IN /\ code = "ok"
          /\ pause' = [pause EXCEPT
                !.pc = "checkpoint_write",
                !.label = pause_label_of(label),
                !.target_trial = target,
                !.control_path = runControl.active_control_path,
                !.seq = read_control_seq(runControl.active_control_path) + 1]
    /\ lockFile' = TRUE
    /\ calls' = calls + 1
    /\ hist' = NoReturn
    /\ UNCHANGED <<evidence, sched, workspace, forks, files>>
    /\ UNCHANGED <<runControl, trialState, controlFile, eventLog, clock,
                   config, run, harness, op>>

\* 985-991: write_control_action(checkpoint)
PauseWriteCheckpoint ==
    /\ pause.pc = "checkpoint_write"
    /\ LET path == pause.control_path
           payload == ControlPayload(pause.seq, "checkpoint", pause.label,
                                     "lab_pause", clock[path])
       IN /\ controlFile' = [controlFile EXCEPT ![path] = payload]
          /\ clock' = [clock EXCEPT ![path] = @ + 1]
          /\ pause' = [pause EXCEPT
                !.pc = "checkpoint_wait", !.seq = 0,
                !.checkpoint_version = sha256_bytes(payload)]
    /\ hist' = NoReturn
    /\ UNCHANGED <<evidence, sched, workspace, forks, files>>
    /\ UNCHANGED <<lockFile, runControl, trialState, eventLog, config, run,
                   harness, op, calls>>

\* 992-994: the checkpoint ack was found; read_control_seq for the stop action
PauseCheckpointAcked ==
    /\ pause.pc = "checkpoint_wait"
    /\ has_control_ack(eventLog[pause.target_trial], "checkpoint",
                       pause.checkpoint_version)
    /\ pause' = [pause EXCEPT
            !.pc = "stop_write",
            !.seq = read_control_seq(pause.control_path) + 1]
    /\ hist' = NoReturn
    /\ UNCHANGED <<evidence, sched, workspace, forks, files>>
    /\ UNCHANGED <<lockFile, runControl, trialState, controlFile, eventLog,
                   clock, config, run, harness, op, calls>>

\* 995-1001: write_control_action(stop)
PauseWriteStop ==
    /\ pause.pc = "stop_write"
    /\ LET path == pause.control_path
           payload == ControlPayload(pause.seq, "stop", pause.label,
                                     "lab_pause", clock[path])
       IN /\ controlFile' = [controlFile EXCEPT ![path] = payload]
          /\ clock' = [clock EXCEPT ![path] = @ + 1]
          /\ pause' = [pause EXCEPT
                !.pc = "stop_wait", !.seq = 0,
                !.stop_version = sha256_bytes(payload)]
    /\ hist' = NoReturn
    /\ UNCHANGED <<evidence, sched, workspace, forks, files>>
    /\ UNCHANGED <<lockFile, runControl, trialState, eventLog, config, run,
                   harness, op, calls>>

\* 1002-1011: the stop ack was found; trial_state.json becomes paused
PauseStopAcked ==
    /\ pause.pc = "stop_wait"
    /\ has_control_ack(eventLog[pause.target_trial], "stop",
                       pause.stop_version)
    /\ trialState' = [trialState EXCEPT ![pause.target_trial] =
            TrialStatePayload("paused", pause.label, pause.label,
                              "paused_by_user")]
    /\ pause' = [pause EXCEPT !.pc = "run_control_write"]
    /\ hist' = NoReturn
    /\ UNCHANGED <<evidence, sched, workspace, forks, files>>
    /\ UNCHANGED <<lockFile, runControl, controlFile, eventLog, clock, config,
                   run, harness, op, calls>>

\* 1012-1026: run_control.json becomes paused; Ok(PauseResult); lock dropped
PauseReturnOk ==
    /\ pause.pc = "run_control_write"
    /\ runControl' = RunControlPayload("paused", pause.target_trial,
                                       pause.control_path)
    /\ hist' = Returned("pause", "ok", pause,
                        PauseResult(pause.target_trial, pause.label), <<>>)
    /\ pause' = PauseIdle
    /\ lockFile' = RunOperationLockDrop(lockFile)
    /\ UNCHANGED <<evidence, sched, workspace, forks, files>>
    /\ UNCHANGED <<trialState, controlFile, eventLog, clock, config, run,
                   harness, op, calls>>

\* wait_for_control_ack (1222-1242): the deadline passes without the ack
PauseAckMissing ==
    /\ pause.pc \in {"checkpoint_wait", "stop_wait"}
    /\ LET action == IF pause.pc = "checkpoint_wait" THEN "checkpoint"
                     ELSE "stop"
           version == IF pause.pc = "checkpoint_wait"
                      THEN pause.checkpoint_version
                      ELSE pause.stop_version
       IN ~has_control_ack(eventLog[pause.target_trial], action, version)
    /\ hist' = Returned("pause", "control_ack_missing", pause, None, <<>>)
    /\ pause' = PauseIdle
    /\ lockFile' = RunOperationLockDrop(lockFile)
    /\ UNCHANGED <<evidence, sched, workspace, forks, files>>
    /\ UNCHANGED <<runControl, trialState, controlFile, eventLog, clock,
                   config, run, harness, op, calls>>

\* ------------------------------------- replay_trial, fork_trial, resume_run
\* 470, 671, 1036: the call starts by taking the operation lock
OpCall(kind) ==
    /\ op[kind] = "idle"
    /\ IF acquire_run_operation_lock(lockFile) = "ok"
       THEN /\ lockFile' = TRUE
            /\ op' = [op EXCEPT ![kind] = "locked"]
            /\ hist' = NoReturn
       ELSE /\ lockFile' = lockFile
            /\ op' = op
            /\ hist' = NoReturn
    /\ UNCHANGED <<evidence, sched, workspace, forks, files>>
    /\ UNCHANGED <<runControl, trialState, controlFile, eventLog, clock,
                   config, run, harness, pause, calls>>

\* the operation returns, with success or an error; its lock guard is dropped
OpReturn(kind) ==
    /\ op[kind] = "locked"
    /\ op' = [op EXCEPT ![kind] = "idle"]
    /\ lockFile' = RunOperationLockDrop(lockFile)
    /\ hist' = NoReturn
    /\ UNCHANGED <<evidence, sched, workspace, forks, files>>
    /\ UNCHANGED <<runControl, trialState, controlFile, eventLog, clock,
                   config, run, harness, pause, calls>>

\* ------------------------------------------------- fork_trial, resume_run
\* 1053-1057: the trial a resume_run call targets
resume_target_trial(rc, trial_id) ==
    IF trial_id # None THEN trial_id ELSE rc.active_trial_id

\* checks that accept a target trial in any state
resume_preconditions_any_trial_state(rc, trial_id, dir_exists, trial_status) ==
    IF rc.status = "absent" THEN "run_control_unreadable"
    ELSE IF rc.status # "paused" THEN "resume_non_paused"
    ELSE IF trial_id = None /\ rc.active_trial_id = None
    THEN "resume_no_active_trial"
    ELSE IF ~dir_exists THEN "resume_trial_not_found"
    ELSE "ok"

\* 1040-1080: the checks of resume_run, in the order of the code; every trial
\* directory holds a trial_state.json, written as the directory is created
resume_preconditions(rc, trial_id, dir_exists, trial_status) ==
    IF rc.status = "absent" THEN "run_control_unreadable"
    ELSE IF rc.status # "paused" THEN "resume_non_paused"
    ELSE IF trial_id = None /\ rc.active_trial_id = None
    THEN "resume_no_active_trial"
    ELSE IF ~dir_exists THEN "resume_trial_not_found"
    ELSE IF trial_status # "paused" THEN "resume_trial_not_paused"
    ELSE "ok"

\* a choice of label that asks the trial state first
option_or_stored_first(label, pause_label) ==
    IF pause_label # None THEN pause_label ELSE label

\* Option::or (1082): the label of the call, else the stored pause_label
option_or(label, pause_label) ==
    IF label # None THEN label ELSE pause_label

\* a level check that lets every level fork strictly
strict_level_never_refused(strict, integration_level) == FALSE

\* 700: strict forks need the integration level sdk_full
strict_level_refused(strict, integration_level) ==
    strict /\ integration_level # "sdk_full"

\* a fallback mode that does not look at the source checkpoint
fallback_mode_always_checkpoint(source_checkpoint) == "checkpoint"

\* 877-881
fallback_mode_of(source_checkpoint) ==
    IF source_checkpoint # None THEN "checkpoint" ELSE "input_only"

\* replay_grade_for_integration
replay_grade_for_integration(level) ==
    CASE level = "sdk_full" -> "strict"
      [] level = "sdk_control" -> "checkpointed"
      [] OTHER -> "best_effort"

\* struct ForkResult (39-49, 897-907); fork_dir is forks/<fork_id>
ForkResult(fork_id, parent_trial_id, selector, strict, replay_grade, harness_status, source_checkpoint, fallback_mode) ==
    [fork_id |-> fork_id, parent_trial_id |-> parent_trial_id,
     selector |-> selector, strict |-> strict, replay_grade |-> replay_grade,
     harness_status |-> harness_status,
     source_checkpoint |-> source_checkpoint, fallback_mode |-> fallback_mode]

\* forks/<fork_id>/manifest.json (882-895)
ForkManifest(fork_id, parent_trial_id, selector, source_checkpoint, fallback_mode, strict, integration_level) ==
    [operation |-> "fork", fork_id |-> fork_id,
     parent_trial_id |-> parent_trial_id, selector |-> selector,
     source_checkpoint |-> source_checkpoint,
     fallback_mode |-> fallback_mode, strict |-> strict,
     integration_level |-> integration_level,
     replay_grade |-> replay_grade_for_integration(integration_level)]

\* 747: fork ids are "fork_<time>"; the time of the n-th fork of a run is n
fork_id_of(n) == "fork_" \o ToString(n)

\* forks/<fork_id>/ after the call: the manifest, the state of trial_1 and
\* the checkpoint_selected that its first trial_state.json named (773-780)
ForkDir(manifest, trial_state, checkpoint_selected) ==
    [manifest |-> manifest, trial_state |-> trial_state,
     checkpoint_selected |-> checkpoint_selected]

\* 682-738: what fork_trial_inner settles before it creates anything: an
\* error, or Ok(source_checkpoint); the parent trial holds its trial_input.json
fork_source(from_trial, selector, strict) ==
    IF strict_level_refused(strict, config.integration_level)
    THEN Err("strict_requires_sdk_full")
    ELSE IF ~trial_dir_exists(from_trial) THEN Err("parent_trial_not_found")
    ELSE LET parsed == parse_fork_selector(selector)
         IN IF ~parsed.ok THEN parsed
            ELSE LET source == resolve_selector_checkpoint(parsed.value,
                                   forks.trial_output, from_trial, strict,
                                   forks.existing)
                 IN IF ~source.ok THEN source
                    ELSE IF strict /\ source.value = None
                    THEN Err("strict_source_unavailable")
                    ELSE source

\* fork_trial_inner: code and value are the Result; dirs is forks/ after the
\* call; the child trial runs its harness, which exits with status and
\* declares outcome
fork_trial_inner(from_trial, selector, strict, status, outcome) ==
    LET source == fork_source(from_trial, selector, strict)
        fork_id == fork_id_of(Len(forks.dirs) + 1)
        fallback_mode == fallback_mode_of(source.value)
        manifest == ForkManifest(fork_id, from_trial, selector, source.value,
                                 fallback_mode, strict,
                                 config.integration_level)
    IN IF ~source.ok
       THEN [code |-> source.code, value |-> None, dirs |-> forks.dirs]
       ELSE [code |-> "ok",
             value |-> ForkResult(fork_id, from_trial, selector, strict,
                           replay_grade_for_integration(
                               config.integration_level),
                           status, source.value, fallback_mode),
             dirs |-> Append(forks.dirs,
                             ForkDir(manifest, classify_trial(status, outcome),
                                     source.value))]

\* the arguments of a fork_trial or resume_run call
ForkCall(trial_id, label, selector, strict) ==
    [trial_id |-> trial_id, label |-> label, selector |-> selector,
     strict |-> strict]

\* fork_trial (664-673): the operation lock is held for the length of the
\* call. No call reads what another call wrote, so each call is taken from
\* the run directory as the run left it
ForkTrial(from_trial, selector, strict, status, outcome) ==
    /\ hist = NoReturn
    /\ LET locked == acquire_run_operation_lock(lockFile)
           result == fork_trial_inner(from_trial, selector, strict, status,
                                      outcome)
           args == ForkCall(from_trial, None, selector, strict)
       IN IF locked # "ok"
          THEN /\ hist' = Returned("fork", locked, args, None, forks.dirs)
               /\ forks' = forks
          ELSE /\ hist' = Returned("fork", result.code, args, result.value,
                                   forks.dirs)
               /\ forks' = [forks EXCEPT !.dirs = result.dirs]
    /\ lockFile' = lockFile
    /\ UNCHANGED <<runControl, trialState, controlFile, eventLog, clock,
                   config, run, harness, pause, op, calls, evidence, sched,
                   workspace, files>>

\* ResumeResult (59-63)
ResumeResult(trial_id, selector, fork) ==
    [trial_id |-> trial_id, selector |-> selector, fork |-> fork]

\* resume_run (1029-1090)
ResumeRun(trial_id, label, strict, status, outcome) ==
    /\ hist = NoReturn
    /\ LET locked == acquire_run_operation_lock(lockFile)
           target == resume_target_trial(runControl, trial_id)
           exists == trial_dir_exists(target)
           code == resume_preconditions(runControl, trial_id, exists,
                       IF exists THEN trialState[target].status ELSE "absent")
           selector == resolve_resume_selector(forks.trial_output,
                           option_or(label, trialState[target].pause_label))
           fork == fork_trial_inner(target, selector.value, strict, status,
                                    outcome)
           args == ForkCall(trial_id, label, <<>>, strict)
           failed == IF locked # "ok" THEN locked
                     ELSE IF code # "ok" THEN code
                     ELSE IF ~selector.ok THEN selector.code
                     ELSE fork.code
       IN IF failed # "ok"
          THEN /\ hist' = Returned("resume", failed, args, None, forks.dirs)
               /\ forks' = forks
          ELSE /\ hist' = Returned("resume", "ok", args,
                                   ResumeResult(target, selector.value,
                                                fork.value), forks.dirs)
               /\ forks' = [forks EXCEPT !.dirs = fork.dirs]
    /\ lockFile' = lockFile
    /\ UNCHANGED <<runControl, trialState, controlFile, eventLog, clock,
                   config, run, harness, pause, op, calls, evidence, sched,
                   workspace, files>>

\* resolve_resume_selector called on the output of the parent trial, as the
\* tests at 5329-5395 call it
ResolveResumeSelector(preferred_label) ==
    /\ hist = NoReturn
    /\ LET selector == resolve_resume_selector(forks.trial_output,
                                               preferred_label)
       IN hist' = Returned("resolve_resume_selector", selector.code,
                           ForkCall(None, preferred_label, <<>>, FALSE),
                           selector.value, forks.dirs)
    /\ UNCHANGED <<lockFile, runControl, trialState, controlFile, eventLog,
                   clock, config, run, harness, pause, op, calls, evidence,
                   sched, workspace, forks, files>>

\* ------------------------------------------------------ schedule builder
\* the seeds used by the calls at lib.rs:6168, 6182 and the default seed
RandomSeeds == {1, 42, 1337}

\* the arguments of the calls: every policy, every seed, 0..MaxDim variants,
\* tasks and replications
ScheduleInit ==
    /\ BeforeRun(NumSlots, {CHOOSE e \in SingleVariantExperiments(NumSlots) :
                               TRUE})
    /\ sched \in [variant_count : 0..MaxDim, task_count : 0..MaxDim,
                  replications : 0..MaxDim, scheduling : SchedulingPolicies,
                  random_seed : RandomSeeds, results : {<<>>}]

\* one call of build_trial_schedule with the arguments of this behaviour
ScheduleCall ==
    /\ Len(sched.results) < MaxCalls
    /\ sched' = [sched EXCEPT !.results =
            Append(@, build_trial_schedule(sched.variant_count,
                                           sched.task_count,
                                           sched.replications,
                                           sched.scheduling,
                                           sched.random_seed))]
    /\ UNCHANGED <<lockFile, runControl, trialState, controlFile, eventLog,
                   clock, config, run, harness, pause, op, calls, hist,
                   evidence, workspace, forks, files>>

ScheduleNext == ScheduleCall

ScheduleSpec == ScheduleInit /\ [][ScheduleNext]_vars

\* ------------------------------------------------------------- inputs
ExitStatuses == {"0", "1"}
Outcomes == {"success", "error"}

\* the trial_id argument of pause_run: none, a trial of the run, or an id
\* that names no trial of the run
PauseTargets == TrialIds \cup {None, TrialIdOf(NumSlots + 1)}

\* -------------------------------------------------- run loop on its own
\* experiments of two variants and LoopTasks tasks: sequential or interleaved,
\* one or LoopAttempts attempts, default or error trigger, no pruning or
\* pruning after 1..LoopFailures consecutive failures
LoopExperiments ==
    [integration_level : {"cli_basic"}, events_path : {FALSE},
     variant_count : {2}, task_count : {LoopTasks}, replications : {1},
     scheduling : {"variant_sequential", "paired_interleaved"},
     random_seed : {1},
     retry_max_attempts : {1, LoopAttempts},
     retry_on : {<<>>, <<"error">>},
     pruning_max_consecutive_failures :
         {<<>>} \cup {<<k>> : k \in 1..LoopFailures},
     state : {"isolate_per_trial"},
     tasks : {[i \in 1..LoopTasks |-> PlainTask]},
     harness_write : {"none"}]

LoopInit ==
    /\ BeforeRun(2 * LoopTasks, LoopExperiments)
    /\ sched = NoSchedule

\* run_experiment_with_behavior with no control operation beside it
LoopNext ==
    \/ RunStart
    \/ RunDispatch
    \/ RunActivate
    \/ RunWriteControlFile
    \/ RunSpawn
    \/ \E status \in ExitStatuses, outcome \in Outcomes :
           RunAttemptObserved(status, outcome)
    \/ RunClassify
    \/ RunTrialEnd
    \/ RunFinalize
    \/ RunAbort

LoopSpec == LoopInit /\ [][LoopNext]_vars

\* ------------------------------------------ run loop with chains of trials
\* the tasks of those experiments: a task with nothing set, a task with a
\* workspace file, a task with a chain_id, and a task with the same chain_id
\* and a policy override that isolates it
ChainTaskKinds ==
    {PlainTask,
     Task(None, None, [p \in {"state.txt"} |-> 9]),
     Task("shared", None, NoWorkspaceFiles),
     Task("shared", "isolate_per_trial", NoWorkspaceFiles)}

\* experiments of two variants and ChainTasks tasks, interleaved, under every
\* state policy, with a harness that leaves, edits or links its workspace,
\* without pruning or with pruning at the first failure
ChainExperiments ==
    [integration_level : {"cli_basic"}, events_path : {FALSE},
     variant_count : {2}, task_count : {ChainTasks}, replications : {1},
     scheduling : {"paired_interleaved"}, random_seed : {1},
     retry_max_attempts : {1}, retry_on : {<<>>},
     pruning_max_consecutive_failures : {<<>>, <<1>>},
     state : StatePolicies,
     tasks : [1..ChainTasks -> ChainTaskKinds],
     harness_write : HarnessWrites]

ChainInit ==
    /\ BeforeRun(2 * ChainTasks, ChainExperiments)
    /\ sched = NoSchedule

\* run_experiment_with_behavior with no control operation beside it; every
\* harness writes a trial_output.json without error
ChainNext ==
    \/ RunStart
    \/ RunDispatch
    \/ RunActivate
    \/ RunWriteControlFile
    \/ RunSpawn
    \/ \E status \in ExitStatuses : RunAttemptDone(status, "success")
    \/ RunClassify
    \/ RunTrialEnd
    \/ RunFinalize
    \/ RunAbort

ChainSpec == ChainInit /\ [][ChainNext]_vars

\* ------------------------------------------- fork and resume on their own
\* the trial that the runs below have executed
ForkParent == TrialIdOf(1)

\* run_control.json and the state of the trial once the run has returned:
\* the trial completed, or it was paused under the label a (886, 1168)
ForkRunControls ==
    {RunControlPayload("paused", ForkParent, control_path_host(ForkParent)),
     RunControlPayload("completed", None, None)}

ForkTrialStates ==
    {TrialStatePayload("completed", None, None, None),
     TrialStatePayload("paused", "a", "a", "paused_by_user")}

ForkIntegrationLevels == {"cli_events", "sdk_full"}

\* the directory of checkpoint a exists under the parent trial or not; the
\* directory of checkpoint b was never written
ForkExisting ==
    {{}, {resolve_event_path_for_trial(checkpoint_path("a"), ForkParent)}}

\* the trial_id argument of resume_run, the from_trial argument of fork_trial
ForkTargets == {None, ForkParent, TrialIdOf(0)}

\* the label argument of resume_run: none, a logical name, a path, or a
\* label that no checkpoint carries
ForkLabels == {None, "a", "b", checkpoint_path("b"), "ghost"}

\* the selector argument of fork_trial
ForkSelectors ==
    {selector_text("checkpoint", n) : n \in {"a", "b", "ghost", " "}}
    \cup {selector_text("step", ToString(n)) : n \in SelectorSteps}
    \cup {selector_text("event_seq", ToString(n)) : n \in {0, 2}}
    \cup {selector_text("step", "x"), selector_text("label", "a"), <<"a">>}

\* the experiment of the run: one trial, a harness of either level
ForkExperiments ==
    [integration_level : ForkIntegrationLevels, events_path : {TRUE},
     variant_count : {1}, task_count : {1}, replications : {1},
     scheduling : {"variant_sequential"}, random_seed : {1},
     retry_max_attempts : {1}, retry_on : {<<>>},
     pruning_max_consecutive_failures : {<<>>},
     state : {"isolate_per_trial"}, tasks : {<<PlainTask>>},
     harness_write : {"none"}]

\* a run of one trial has returned; the harness of the trial declared some
\* checkpoints or wrote no output
ForkInit ==
    /\ lockFile = FALSE
    /\ runControl \in ForkRunControls
    /\ trialState \in [{ForkParent} -> ForkTrialStates]
    /\ controlFile = [p \in {control_path_host(ForkParent)} |-> NoControlFile]
    /\ eventLog = [t \in {ForkParent} |-> <<>>]
    /\ clock = [p \in {control_path_host(ForkParent)} |-> 1]
    /\ config \in ForkExperiments
    /\ run = [RunInit EXCEPT !.pc = "returned", !.run_guard = "done",
                             !.result = "ok"]
    /\ harness = HarnessInit
    /\ pause = PauseIdle
    /\ op = [k \in OpKinds |-> "idle"]
    /\ calls = 0
    /\ hist = NoReturn
    /\ evidence = <<>>
    /\ sched = NoSchedule
    /\ workspace = EmptyDir
    /\ forks \in [trial_output : TrialOutputs, existing : ForkExisting,
                  dirs : {<<>>}]
    /\ files = NoFiles

ForkNext ==
    \/ \E from_trial \in ForkTargets \ {None}, selector \in ForkSelectors,
          strict \in BOOLEAN, status \in ExitStatuses :
          ForkTrial(from_trial, selector, strict, status, "success")
    \/ \E trial_id \in ForkTargets, label \in ForkLabels, strict \in BOOLEAN,
          status \in ExitStatuses :
          ResumeRun(trial_id, label, strict, status, "success")
    \/ \E preferred_label \in ForkLabels :
          ResolveResumeSelector(preferred_label)

ForkSpec == ForkInit /\ [][ForkNext]_vars

\* ----------------------------------------- a run of several trials and pause_run
\* a run of two trials, the shortest in which a slot is left after a trial
StopInit ==
    /\ BeforeRun(2, SingleVariantExperiments(2))
    /\ sched = NoSchedule

\* run_experiment_with_behavior, the harness and pause_run
StopNext ==
    \/ RunStart
    \/ RunDispatch
    \/ RunActivate
    \/ RunWriteControlFile
    \/ RunSpawn
    \/ \E status \in ExitStatuses, outcome \in Outcomes :
           RunAttemptDone(status, outcome)
    \/ RunClassify
    \/ RunMarkPaused
    \/ RunTrialEnd
    \/ RunFinalize
    \/ RunAbort
    \/ HarnessAck
    \/ \E trial_id \in PauseTargets : PauseRejected(trial_id, None)
    \/ \E trial_id \in PauseTargets, label \in Labels :
           PauseAccepted(trial_id, label)
    \/ PauseWriteCheckpoint
    \/ PauseCheckpointAcked
    \/ PauseWriteStop
    \/ PauseStopAcked
    \/ PauseReturnOk
    \/ PauseAckMissing

StopSpec == StopInit /\ [][StopNext]_vars

\* ------------------------------------------------------------------- Next
Next ==
    \/ RunEntryRejected
    \/ RunStart
    \/ RunDispatch
    \/ RunActivate
    \/ RunWriteControlFile
    \/ RunSpawn
    \/ \E status \in ExitStatuses, outcome \in Outcomes :
           RunAttemptDone(status, outcome)
    \/ RunClassify
    \/ RunMarkPaused
    \/ RunTrialEnd
    \/ RunFinalize
    \/ RunAbort
    \/ HarnessAck
    \/ \E trial_id \in PauseTargets : PauseRejected(trial_id, None)
    \/ \E trial_id \in PauseTargets, label \in Labels :
           PauseAccepted(trial_id, label)
    \/ PauseWriteCheckpoint
    \/ PauseCheckpointAcked
    \/ PauseWriteStop
    \/ PauseStopAcked
    \/ PauseReturnOk
    \/ PauseAckMissing
    \/ \E kind \in OpKinds : OpCall(kind)
    \/ \E kind \in OpKinds : OpReturn(kind)

Spec == Init /\ [][Next]_vars

\* ======================================================== properties
\* the operations that are past acquire_run_operation_lock and have not returned
LockHolders ==
    {k \in OpKinds : op[k] = "locked"}
        \cup (IF pause.pc # "idle" THEN {"pause"} ELSE {})

\* lines of the event log of trial t that are a control_ack for action
AcksOf(t, action) ==
    {i \in 1..Len(eventLog[t]) :
        /\ eventLog[t][i].event_type = "control_ack"
        /\ eventLog[t][i].action_observed = action}

\* those of them that carry control_version
AckLines(t, action, control_version) ==
    {i \in AcksOf(t, action) : eventLog[t][i].control_version = control_version}

\* a pause_run call returned in the last step with result
PauseReturned(result) == hist.op = "pause" /\ hist.result = result

\* the results of a pause_run call that ended before it wrote an action
PauseRejections ==
    {"operation_in_progress", "io_error", "pause_non_running",
     "pause_target_not_active", "pause_no_active_trial",
     "pause_missing_control_path", "unsupported_for_integration_level",
     "pause_requires_events_path", "pause_trial_not_found"}

\* C1: at most one of replay_trial, fork_trial, pause_run and resume_run holds
\* the operation lock at any time, and the lock file exists while one holds it;
\* a pause_run call that finds the lock file present returns
\* operation_in_progress, and only then, and run_control.json, the
\* trial_state.json files and the control files are as the call found them.
C1_LockExclusive ==
    /\ Cardinality(LockHolders) <= 1
    /\ LockHolders # {} => lockFile
    /\ hist.op = "pause" /\ hist.result \in PauseRejections =>
          (hist.result = "operation_in_progress" <=> lockFile)
    /\ hist.result = "operation_in_progress" => hist.before = StateFiles

\* C1 happens: a pause_run call found the lock held by another operation
C1_Witness ==
    /\ PauseReturned("operation_in_progress")
    /\ \E k \in OpKinds : op[k] = "locked"

\* C2: within one pause_run call, once the stop action is written the event
\* log holds a control_ack for checkpoint with the control_version of the
\* checkpoint action that the call wrote: stop is never written before or
\* without that ack. Stated for the call in progress and for the call that
\* has just returned; a state right after the write of stop is among them.
C2_StopAfterCheckpointAck ==
    \A c \in {pause, hist.call} :
        c.stop_version # <<>> =>
            AckLines(c.target_trial, "checkpoint", c.checkpoint_version) # {}

\* C2 happens: the call has written stop and waits for its ack
C2_Witness ==
    /\ pause.pc = "stop_wait"
    /\ controlFile[pause.control_path].action = "stop"
    /\ sha256_bytes(controlFile[pause.control_path]) = pause.stop_version

\* C3 (as stated): after a successful pause_run the event log of the trial
\* holds exactly one control_ack for checkpoint and exactly one for stop, with
\* distinct versions, each the version of an action the call wrote.
C3_ExactlyOneAckPerAction ==
    PauseReturned("ok") =>
        LET t == hist.call.target_trial IN
        /\ Cardinality(AcksOf(t, "checkpoint")) = 1
        /\ Cardinality(AcksOf(t, "stop")) = 1
        /\ AckLines(t, "checkpoint", hist.call.checkpoint_version) # {}
        /\ AckLines(t, "stop", hist.call.stop_version) # {}
        /\ hist.call.checkpoint_version # hist.call.stop_version

\* C3 (amended): after a successful pause_run the event log of the trial holds
\* a control_ack for checkpoint and a control_ack for stop that carry the two
\* distinct versions of the actions this call wrote, the stop version being
\* that of the bytes now in the control file; the log may hold the acks of
\* earlier pause_run calls as well.
C3_AcksOfThisCall ==
    PauseReturned("ok") =>
        LET t == hist.call.target_trial IN
        /\ AckLines(t, "checkpoint", hist.call.checkpoint_version) # {}
        /\ AckLines(t, "stop", hist.call.stop_version) # {}
        /\ hist.call.checkpoint_version # hist.call.stop_version
        /\ hist.call.stop_version
              = sha256_bytes(controlFile[hist.call.control_path])

\* C3 happens: a pause_run succeeds on a second attempt, after the checkpoint
\* of an earlier call was acknowledged
C3_Witness ==
    /\ PauseReturned("ok")
    /\ Cardinality(AcksOf(hist.call.target_trial, "checkpoint")) = 2

\* C4 (as stated), for a run function that has not returned: when pause_run
\* returns control_ack_missing, run_control.json still has status running and
\* the trial_state.json of the target trial does not have status paused.
C4_AckMissingLeavesRunRunning ==
    PauseReturned("control_ack_missing") /\ run.pc # "returned" =>
        /\ runControl.status = "running"
        /\ trialState[hist.call.target_trial].status # "paused"

\* C5: when the run function returns, normally or with an error, every
\* dispatched trial has status completed, failed or paused, and no trial has
\* status running from then on; a trial whose guard is armed at an error
\* return is written failed with exit_reason aborted.
C5_NoTrialLeftRunning ==
    /\ [](run.pc = "returned" =>
            \A n \in 1..run.trial_index :
                trialState[TrialIdOf(n)].status
                    \in {"completed", "failed", "paused"})
    /\ [][run.pc # "returned" /\ run'.pc = "returned"
            /\ run.trial_guard = "armed" =>
                trialState'[CurrentTrial] =
                    TrialStatePayload("failed", None, None, "aborted")]_vars

\* C5 happens: the run returned with an error while a trial was in flight
C5_Witness ==
    /\ run.pc = "returned"
    /\ run.result = "err"
    /\ run.trial_index >= 1
    /\ trialState[CurrentTrial].exit_reason = "aborted"

\* C6: at no time after the run function returned does run_control.json have
\* status running; at a normal return the status is completed or paused, at
\* an error return after the run directory was created it is failed.
C6_RunControlSettled ==
    /\ [](run.pc = "returned" => runControl.status # "running")
    /\ [][run.pc # "returned" /\ run'.pc = "returned" =>
            /\ run'.result = "ok" =>
                  runControl'.status \in {"completed", "paused"}
            /\ run'.result = "err" /\ run.run_guard = "armed" =>
                  runControl'.status = "failed"]_vars

\* C6 happens: an error return after the run directory was created
C6_Witness ==
    /\ run.pc = "returned"
    /\ run.result = "err"
    /\ runControl.status = "failed"

\* C7 (as stated): while the run function works on the run directory the
\* operation lock exists and no control operation holds it.
C7_RunHoldsLock ==
    run.pc \notin {"init", "returned"} => lockFile /\ LockHolders = {}

\* C8: the lock file exists exactly while an operation is between its
\* acquisition and its return; after pause_run returns, with success or with
\* any error other than operation_in_progress, the file is absent and can be
\* acquired; a failed acquisition leaves the holder's lock in place.
C8_LockReleased ==
    /\ lockFile <=> LockHolders # {}
    /\ hist.op = "pause" /\ hist.result # "operation_in_progress" =>
          /\ ~lockFile
          /\ acquire_run_operation_lock(lockFile) = "ok"
    /\ hist.result = "operation_in_progress" => lockFile /\ LockHolders # {}

\* C8 happens: pause_run returned through its error path after the lock was
\* taken and actions were written
C8_Witness ==
    /\ PauseReturned("control_ack_missing")
    /\ hist.call.stop_version # <<>>
    /\ ~lockFile

\* C9 (as stated): when pause_run returns success with label L the result has
\* checkpoint_acked and stop_acked true, run_control.json has status paused and
\* names the paused trial, and the trial_state.json of that trial has status
\* paused, pause_label L and exit_reason paused_by_user.
C9_PauseSuccessState ==
    PauseReturned("ok") =>
        LET t == hist.call.target_trial IN
        /\ hist.value.checkpoint_acked /\ hist.value.stop_acked
        /\ hist.value.label = hist.call.label
        /\ runControl.status = "paused"
        /\ runControl.active_trial_id = t
        /\ trialState[t].status = "paused"
        /\ trialState[t].pause_label = hist.call.label
        /\ trialState[t].exit_reason = "paused_by_user"

\* C10: pause_run passes its checks only when run_control.json has status
\* running, the integration level is above cli_basic and an events path is
\* configured; a status other than running is answered pause_non_running, and
\* the level and events path errors are given only for cli_basic and for a
\* missing events path; a call that is rejected writes no control action and
\* leaves run_control.json and the trial_state.json files as it found them.
C10_PauseRejected ==
    /\ \A t \in PauseTargets :
          LET code == pause_preconditions(runControl, t, config,
                        trial_dir_exists(pause_target_trial(runControl, t)))
          IN /\ code = "ok" =>
                    /\ runControl.status = "running"
                    /\ config.integration_level # "cli_basic"
                    /\ config.events_path
             /\ runControl.status \notin {"running", "absent"} =>
                    code = "pause_non_running"
             /\ code = "unsupported_for_integration_level" =>
                    config.integration_level = "cli_basic"
             /\ code = "pause_requires_events_path" => ~config.events_path
    /\ pause.pc # "idle" =>
          config.integration_level # "cli_basic" /\ config.events_path
    /\ hist.op = "pause" /\ hist.result \in PauseRejections =>
          hist.before = StateFiles

\* C10 happens: a pause of a running run with an active trial is rejected for
\* the missing events path
C10_Witness ==
    /\ PauseReturned("pause_requires_events_path")
    /\ runControl.status = "running"
    /\ runControl.active_trial_id # None

\* the answer of the checks of pause_run to a call with trial_id, now
PauseCode(trial_id) ==
    pause_preconditions(runControl, trial_id, config,
                        trial_dir_exists(pause_target_trial(runControl, trial_id)))

\* C11: a pause_run call on a running run with an explicit target trial that
\* is not the trial run_control.json names as active is rejected with
\* pause_target_not_active, and no other call is; the rejected call writes no
\* control action and leaves the state files as it found them.
C11_TargetNotActiveRejected ==
    /\ \A t \in PauseTargets :
          PauseCode(t) = "pause_target_not_active" <=>
              /\ t # None
              /\ runControl.status = "running"
              /\ runControl.active_trial_id # None
              /\ t # runControl.active_trial_id
    /\ PauseReturned("pause_target_not_active") =>
          hist.before = StateFiles /\ pause.pc = "idle"

\* C11 happens: a call names a trial while another trial is the active one
C11_Witness ==
    /\ PauseReturned("pause_target_not_active")
    /\ runControl.active_trial_id # None

\* C12 (as stated): while run_control.json has status running and names no
\* active trial, every pause_run call is answered pause_no_active_trial.
C12_NoActiveTrialCode ==
    runControl.status = "running" /\ runControl.active_trial_id = None =>
        \A t \in PauseTargets : PauseCode(t) = "pause_no_active_trial"

\* C12 (amended): while run_control.json has status running and names no
\* active trial, a pause_run call is refused and changes nothing: with
\* pause_no_active_trial when the call names no trial, and only then, with
\* pause_missing_control_path when it names one.
C12_NoActiveTrialRefused ==
    /\ \A t \in PauseTargets :
          LET boundary == /\ runControl.status = "running"
                          /\ runControl.active_trial_id = None
          IN /\ PauseCode(t) = "pause_no_active_trial" <=>
                    boundary /\ t = None
             /\ boundary /\ t # None =>
                    PauseCode(t) = "pause_missing_control_path"
    /\ hist.op = "pause"
          /\ hist.result \in {"pause_no_active_trial",
                              "pause_missing_control_path"} =>
              hist.before = StateFiles /\ pause.pc = "idle"

\* C12 happens: a pause without a target is refused between two trials, after
\* the run loop has written active_trial_id null
C12_Witness ==
    /\ PauseReturned("pause_no_active_trial")
    /\ run.pc = "schedule"
    /\ run.trial_index >= 1

\* the (variant, task, replication) triples of the arguments of the calls
ScheduleTriples ==
    {TrialSlot(v, t, r) : v \in 0..(sched.variant_count - 1),
                          t \in 0..(sched.task_count - 1),
                          r \in 0..(sched.replications - 1)}

\* the result of the n-th call was computed by the given policy
Scheduled(n, scheduling) ==
    n <= Len(sched.results) /\ sched.scheduling = scheduling

\* C18: for every policy and seed, build_trial_schedule(V, T, R, ..) returns
\* V*T*R slots in which every (variant, task, replication) triple occurs
\* exactly once; the result is empty when V, T or R is 0.
C18_ScheduleIsPermutation ==
    \A n \in 1..Len(sched.results) :
        LET slots == sched.results[n] IN
        /\ Len(slots) = sched.variant_count * sched.task_count
                            * sched.replications
        /\ \A triple \in ScheduleTriples :
              Cardinality({i \in 1..Len(slots) : slots[i] = triple}) = 1
        /\ \A i \in 1..Len(slots) : slots[i] \in ScheduleTriples
        /\ (sched.variant_count = 0 \/ sched.task_count = 0
               \/ sched.replications = 0) => slots = <<>>

\* C18 happens: a randomized schedule of MaxDim^3 slots was built and its
\* order is not the order before the shuffle
C18_Witness ==
    /\ Scheduled(1, "randomized")
    /\ Len(sched.results[1]) = MaxDim * MaxDim * MaxDim
    /\ sched.results[1] # variant_sequential(MaxDim, MaxDim, MaxDim)

\* C19: a paired_interleaved schedule is ordered by task, then variant, then
\* replication: the V*R slots of task t come before every slot of task t+1.
C19_PairedInterleavedOrder ==
    \A n \in 1..Len(sched.results) :
        sched.scheduling = "paired_interleaved" =>
            LET slots == sched.results[n] IN
            /\ \A i, j \in 1..Len(slots) :
                  i < j =>
                      \/ slots[i].task_idx < slots[j].task_idx
                      \/ /\ slots[i].task_idx = slots[j].task_idx
                         /\ \/ slots[i].variant_idx < slots[j].variant_idx
                            \/ /\ slots[i].variant_idx = slots[j].variant_idx
                               /\ slots[i].repl_idx < slots[j].repl_idx
            /\ \A t \in 0..(sched.task_count - 1) :
                  Cardinality({i \in 1..Len(slots) : slots[i].task_idx = t})
                      = sched.variant_count * sched.replications

\* C19 happens: a paired_interleaved schedule over several variants, tasks
\* and replications was built
C19_Witness ==
    /\ Scheduled(1, "paired_interleaved")
    /\ sched.variant_count >= 2
    /\ sched.task_count >= 2
    /\ sched.replications >= 2
    /\ Len(sched.results[1]) >= 8

StopRequestedByPause ==
    LET ctl == controlFile[control_path_host(CurrentTrial)]
    IN ctl.action = "stop" /\ ctl.requested_by = "lab_pause"

\* C13: when the control file holds stop requested by lab_pause after the
\* harness of a trial has exited, the run loop marks the trial paused (not
\* completed or failed) and the run paused, and dispatches no later slot: no
\* trial id, no spawn, no evidence line; a run function that then returns Ok
\* leaves run status paused.
C13_StopMarksPaused ==
    /\ [](/\ run.pc = "mark_paused" \/ run.run_paused =>
                trialState[CurrentTrial].status = "paused"
          /\ run.run_paused /\ run.result # "err" =>
                runControl.status = "paused")
    /\ [][/\ run.pc = "post" /\ StopRequestedByPause
                /\ run'.pc \notin {"post", "returned"} =>
                    /\ run'.pc = "mark_paused"
                    /\ trialState'[CurrentTrial].status = "paused"
          /\ run.pc = "mark_paused" \/ run.run_paused =>
                /\ run'.trial_index = run.trial_index
                /\ harness' = harness
                /\ evidence' = evidence
                /\ run'.pc \in {"mark_paused", "finalize", "returned"}
          /\ run.run_paused /\ run'.pc = "returned" /\ run'.result = "ok" =>
                runControl'.status = "paused"]_vars

\* C13 happens: the run function returned Ok after the first trial was marked
\* paused, with a slot of the schedule never dispatched
C13_Witness ==
    /\ run.pc = "returned"
    /\ run.result = "ok"
    /\ run.run_paused
    /\ run.trial_index < Len(run.schedule)
    /\ trialState[CurrentTrial].status = "paused"
    /\ trialState[TrialIdOf(run.trial_index + 1)].status = "absent"
    /\ runControl.status = "paused"

\* the retry triggers of section 4.5.2: an empty list retries on any
\* non-success; error, failure and timeout retry on their own condition
RetryTriggered(outcome, exit_status, retry_on) ==
    LET triggers == {retry_on[i] : i \in 1..Len(retry_on)} IN
    IF triggers = {} THEN outcome = "error" \/ exit_status # "0"
    ELSE \/ "error" \in triggers /\ outcome = "error"
         \/ "failure" \in triggers /\ exit_status # "0"
         \/ "timeout" \in triggers /\ outcome = "timeout"

LinesOf(v) == {i \in 1..Len(evidence) : evidence[i].variant_idx = v}

\* the trial of line i ended failed
LineFailed(i) == trialState[evidence[i].trial_id].status = "failed"

\* the failed trials at the end of the trials of variant v among lines 1..i
RECURSIVE StreakUpTo(_, _)
StreakUpTo(v, i) ==
    IF i = 0 THEN 0
    ELSE IF evidence[i].variant_idx # v THEN StreakUpTo(v, i - 1)
    ELSE IF LineFailed(i) THEN 1 + StreakUpTo(v, i - 1)
    ELSE 0

\* the failed trials at the end of the finished trials of variant v
Streak(v) == StreakUpTo(v, Len(evidence))

Variants == 0..(config.variant_count - 1)

\* C15: with pruning_max_consecutive_failures = k a variant is pruned exactly
\* when its k-th consecutive failed trial has finished, never after fewer;
\* the counter of a variant is the length of its latest run of failed
\* trials, so a completed trial resets it to zero; without the setting no
\* variant is pruned.
C15_PrunedAtKthFailure ==
    run.pc \notin {"init"} =>
        LET k == config.pruning_max_consecutive_failures IN
        \A v \in Variants :
            /\ run.consecutive_failures[v] = Streak(v)
            /\ k = <<>> => v \notin run.pruned_variants
            /\ k # <<>> => (v \in run.pruned_variants <=> Streak(v) >= k[1])

\* C15 happens: k = LoopFailures, a variant whose first trial completed is
\* pruned after its next LoopFailures trials failed
C15_Witness ==
    /\ config.pruning_max_consecutive_failures = <<LoopFailures>>
    /\ \E v \in run.pruned_variants :
          /\ Streak(v) = LoopFailures
          /\ Cardinality(LinesOf(v)) > LoopFailures

\* the place in the schedule of the slot of an evidence line
PositionOf(line) ==
    CHOOSE p \in 1..Len(run.schedule) :
        run.schedule[p] = TrialSlot(line.variant_idx, line.task_idx,
                                    line.repl_idx)

\* the places in the schedule of the slots that have an evidence line
Executed == {PositionOf(evidence[i]) : i \in 1..Len(evidence)}

\* the places in the schedule the loop has gone past
Passed ==
    IF run.pc = "returned" /\ run.result = "ok" /\ ~run.run_paused
    THEN 1..Len(run.schedule)
    ELSE 1..(run.slot - 1)

\* line i of the evidence file is the line of slot
LineOfSlot(i, slot) ==
    /\ i <= Len(evidence)
    /\ evidence[i].variant_idx = slot.variant_idx
    /\ evidence[i].task_idx = slot.task_idx
    /\ evidence[i].repl_idx = slot.repl_idx

\* from place p of the schedule and line i of the evidence file on: the lines
\* follow the schedule, and a place gone past without a line is a slot of a
\* pruned variant
RECURSIVE LinesFollowSchedule(_, _)
LinesFollowSchedule(p, i) ==
    IF p > Len(run.schedule) THEN i > Len(evidence)
    ELSE IF LineOfSlot(i, run.schedule[p])
         THEN LinesFollowSchedule(p + 1, i + 1)
         ELSE /\ p \in Passed =>
                    run.schedule[p].variant_idx \in run.pruned_variants
              /\ LinesFollowSchedule(p + 1, i)

\* C16: once a variant is pruned no later slot of it is dispatched: no trial
\* is in progress for a pruned variant, and the last trial of a pruned
\* variant is the one that reached the maximum; the slots of the other
\* variants are all executed, in schedule order.
C16_PrunedSlotsSkipped ==
    /\ run.pc \in {"prepare", "activated", "retry_loop", "waiting", "post"} =>
          CurrentSlot.variant_idx \notin run.pruned_variants
    /\ \A v \in run.pruned_variants :
          Streak(v) = config.pruning_max_consecutive_failures[1]
    /\ LinesFollowSchedule(1, 1)

\* C16 happens: the run returned Ok, a slot of a pruned variant was skipped
\* and a later slot of another variant was executed
C16_Witness ==
    /\ run.pc = "returned"
    /\ run.result = "ok"
    /\ \E p \in Passed \ Executed, q \in Executed :
          /\ p < q
          /\ run.schedule[p].variant_idx \in run.pruned_variants
          /\ run.schedule[q].variant_idx \notin run.pruned_variants

\* C17 (as stated): when the run function has returned Ok, the lines of
\* evidence_records.jsonl are the trials that ended completed, one line each.
C17_OneLinePerCompletedTrial ==
    run.pc = "returned" /\ run.result = "ok" =>
        /\ {evidence[i].trial_id : i \in 1..Len(evidence)}
              = {t \in DOMAIN trialState : trialState[t].status = "completed"}
        /\ \A i, j \in 1..Len(evidence) :
              evidence[i].trial_id = evidence[j].trial_id => i = j

\* C17 (amended): when the run function has returned Ok,
\* evidence_records.jsonl holds one line per dispatched trial, whatever the
\* status the trial ended with, line i being the line of the i-th dispatched
\* trial; the file only grows, one line at its end at a time.
C17_OneLinePerDispatchedTrial ==
    /\ [](run.pc = "returned" /\ run.result = "ok" =>
             /\ Len(evidence) = run.trial_index
             /\ \A i \in 1..Len(evidence) :
                   /\ evidence[i].trial_id = TrialIdOf(i)
                   /\ trialState[TrialIdOf(i)].status
                         \in {"completed", "failed"}
                   /\ i < Len(evidence) =>
                         PositionOf(evidence[i]) < PositionOf(evidence[i + 1]))
    /\ [][\/ evidence' = evidence
          \/ /\ Len(evidence') = Len(evidence) + 1
             /\ SubSeq(evidence', 1, Len(evidence)) = evidence]_vars

\* C17 happens: the run function returned Ok with lines of completed trials
\* and of failed trials
C17_Witness ==
    /\ run.pc = "returned"
    /\ run.result = "ok"
    /\ Len(evidence) >= 3
    /\ \E i, j \in 1..Len(evidence) :
          /\ trialState[evidence[i].trial_id].status = "completed"
          /\ trialState[evidence[j].trial_id].status = "failed"

\* ------------------------------------------------------ control-file seq
\* C24 (as stated): for any one control-action file the seq values of
\* successive writes never decrease: the run loop writes seq 0 (continue) when
\* the trial starts, and every pause action is written with the stored seq
\* plus one, so a write never lowers the seq the file holds.
C24_ControlSeqMonotonic ==
    [][\A t \in TrialIds :
         LET path == control_path_host(t) IN
         controlFile'[path] # controlFile[path] =>
            /\ controlFile'[path].seq >= read_control_seq(path)
            /\ controlFile'[path].requested_by = "run_loop" =>
                  controlFile'[path].seq = 0
            /\ controlFile'[path].requested_by = "lab_pause" =>
                  controlFile'[path].seq = read_control_seq(path) + 1]_vars

\* ------------------------------------------------------ chains of trials
\* the digest that a snapshot manifest lists for path: none or one
DigestIn(manifest, path) == {m[2] : m \in {n \in manifest : n[1] = path}}

\* line i of evidence_records.jsonl belongs to a trial that carries state
CarriesState(i) == evidence[i].state_policy # "isolate_per_trial"

\* lines i and j are steps k-1 and k, k > 0, of one chain that carries state
ChainSuccessor(i, j) ==
    /\ CarriesState(i) /\ CarriesState(j)
    /\ evidence[i].chain_id = evidence[j].chain_id
    /\ evidence[j].chain_step_index = evidence[i].chain_step_index + 1

\* the workspace files that the task of line j declares
DeclaredFiles(j) == config.tasks[evidence[j].task_idx + 1].workspace_files

C22_ChainStateUpdatedAfterSnapshot ==
    [][LET last == evidence'[Len(evidence')] IN
       /\ run'.chain_states # run.chain_states =>
             /\ run.pc = "post"
             /\ Len(evidence') = Len(evidence) + 1
             /\ last.trial_id = CurrentTrial
             /\ last.state_policy \in {"persist_per_task", "accumulate"}
             /\ DOMAIN run'.chain_states =
                    DOMAIN run.chain_states \cup {last.chain_id}
             /\ \A k \in DOMAIN run.chain_states \ {last.chain_id} :
                    run'.chain_states[k] = run.chain_states[k]
             /\ run'.chain_states[last.chain_id].latest_snapshot_ref =
                    last.workspace_post_ref
             /\ run'.chain_states[last.chain_id].latest_snapshot_path =
                    last.post_workspace_snapshot_dir
             /\ run'.chain_states[last.chain_id].step_index =
                    last.chain_step_index
       /\ (Len(evidence') = Len(evidence) + 1
              /\ last.state_policy = "isolate_per_trial") =>
             run'.chain_states = run.chain_states
       /\ (run'.result = "err" /\ run.result # "err") =>
             run'.chain_states = run.chain_states]_vars

\* a chain key whose state a trial wrote and an isolated trial after it left
\* alone, in a run that then returned an error
C22_Witness ==
    /\ run.result = "err"
    /\ \E i, j \in 1..Len(evidence) :
          /\ i < j
          /\ CarriesState(i) /\ ~CarriesState(j)
          /\ evidence[i].chain_id = evidence[j].chain_id
          /\ evidence[i].chain_id \in DOMAIN run.chain_states
          /\ run.chain_states[evidence[i].chain_id].latest_snapshot_ref =
                 evidence[i].workspace_post_ref

\* line j is the next line after line i that has the chain key of line i
NextOnChain(i, j) ==
    /\ i < j
    /\ evidence[i].chain_id = evidence[j].chain_id
    /\ \A k \in (i + 1)..(j - 1) : evidence[k].chain_id # evidence[i].chain_id

\* C23: within one run the trial ordinals are trial_1, trial_2, ... in
\* dispatch order: the n-th trial dispatched is trial_n, its slot comes later
\* in the schedule than the slots of the trials before it, and a slot that is
\* skipped for a pruned variant takes no ordinal; across the successive trials
\* of one chain key the recorded step_index never decreases: it is one more
\* than that of the trial before when that trial carried state, and the same
\* when it did not.
C23_OrdinalsAndStepsMonotonic ==
    /\ \A i \in 1..Len(evidence) : evidence[i].trial_id = TrialIdOf(i)
    /\ \A i \in 1..(Len(evidence) - 1) :
          PositionOf(evidence[i]) < PositionOf(evidence[i + 1])
    /\ {t \in DOMAIN trialState : trialState[t].status # "absent"}
          = {TrialIdOf(n) : n \in 1..run.trial_index}
    /\ run.trial_index =
          Cardinality(Executed \cup (IF run.slot > 0 THEN {run.slot} ELSE {}))
    /\ LinesFollowSchedule(1, 1)
    /\ \A i, j \in 1..Len(evidence) :
          /\ (i < j /\ evidence[i].chain_id = evidence[j].chain_id) =>
                evidence[i].chain_step_index <= evidence[j].chain_step_index
          /\ NextOnChain(i, j) =>
                evidence[j].chain_step_index =
                    evidence[i].chain_step_index
                        + (IF CarriesState(i) THEN 1 ELSE 0)

\* a slot of a pruned variant was skipped, so that a later trial has an
\* ordinal below the place of its slot, and that trial is step 1 of its chain
C23_Witness ==
    \E i \in 1..Len(evidence) :
        /\ PositionOf(evidence[i]) > i
        /\ evidence[i].chain_step_index = 1
        /\ \E p \in 1..PositionOf(evidence[i]) \ Executed :
              run.schedule[p].variant_idx \in run.pruned_variants

\* ------------------------------------------------------- fork and resume
\* the trial that the resume_run call which returned last was aimed at
ResumeTarget == resume_target_trial(runControl, hist.call.trial_id)

\* C25: a resume_run call on a run whose run_control status is not paused
\* returns resume_non_paused, and on a paused run whose target trial is in
\* another state than paused it returns resume_trial_not_paused; neither
\* error is returned otherwise, and after either of them forks/ holds no
\* fork directory and no child trial.
C25_ResumeRequiresPaused ==
    hist.op = "resume" =>
        /\ hist.result = "resume_non_paused" <=> runControl.status # "paused"
        /\ hist.result = "resume_trial_not_paused" <=>
               /\ runControl.status = "paused"
               /\ trial_dir_exists(ResumeTarget)
               /\ trialState[ResumeTarget].status # "paused"
        /\ hist.result \in {"resume_non_paused", "resume_trial_not_paused"} =>
               forks.dirs = <<>>

\* a resume of a completed trial of a paused run was rejected, with an
\* explicit trial id and a label that names a declared checkpoint
C25_Witness ==
    /\ hist.op = "resume"
    /\ hist.result = "resume_trial_not_paused"
    /\ hist.call.trial_id = ForkParent
    /\ hist.call.label = "a"
    /\ find_checkpoint(checkpoints_of(forks.trial_output), "a", 1) # <<>>
    /\ trialState[ForkParent].status = "completed"
    /\ forks.dirs = <<>>

\* the checkpoints that the parent trial declared
Declared == checkpoints_of(forks.trial_output)

\* some declared checkpoint has label as its logical_name or as its path
LabelDeclared(label) ==
    \E i \in 1..Len(Declared) :
        Declared[i].logical_name = label \/ Declared[i].path = label

\* entry i has a step and no declared checkpoint has a larger one
HighestStep(i) ==
    /\ Declared[i].step # <<>>
    /\ \A j \in 1..Len(Declared) :
           Declared[j].step # <<>> => Declared[j].step[1] <= Declared[i].step[1]

\* the resume_run call that returned last passed the checks of the run and
\* trial state
ResumePassedChecks ==
    /\ hist.op = "resume"
    /\ runControl.status = "paused"
    /\ trial_dir_exists(ResumeTarget)
    /\ trialState[ResumeTarget].status = "paused"

\* the label that the call which returned last had to go by: the label of the
\* call, else the pause_label of the trial state, else none
LabelInForce ==
    IF hist.call.label # None THEN hist.call.label
    ELSE IF hist.op = "resume" THEN trialState[ResumeTarget].pause_label
    ELSE None

\* C26: for a paused trial that declared checkpoints, resume_run goes by the
\* label of the call when there is one and by the stored pause_label
\* otherwise: when no declared checkpoint has that label as logical_name or
\* path the call fails with resume_checkpoint_not_found, else the selector of
\* the fork is checkpoint:<label>. Only when there is neither label is the
\* selector that of a declared checkpoint with the highest step.
C26_SelectorDerivation ==
    (ResumePassedChecks \/ hist.op = "resolve_resume_selector") /\ Declared # <<>>
    => /\ LabelInForce # None /\ ~LabelDeclared(LabelInForce) =>
              hist.result = "resume_checkpoint_not_found"
       /\ LabelInForce # None /\ LabelDeclared(LabelInForce) =>
              /\ hist.result # "resume_checkpoint_not_found"
              /\ hist.op = "resolve_resume_selector" =>
                     /\ hist.result = "ok"
                     /\ hist.value = selector_text("checkpoint", LabelInForce)
              /\ hist.op = "resume" /\ hist.result = "ok" =>
                     /\ hist.value.selector =
                            selector_text("checkpoint", LabelInForce)
                     /\ hist.value.fork.selector = hist.value.selector
                     /\ forks.dirs[1].manifest.selector = hist.value.selector
       /\ LabelInForce = None /\ (\E i \in 1..Len(Declared) : HighestStep(i)) =>
              /\ hist.result = "ok"
              /\ \E i \in 1..Len(Declared) :
                     /\ HighestStep(i)
                     /\ hist.value =
                            selector_text("checkpoint", Declared[i].logical_name)

\* a resume without a label went by the stored pause_label a, although the
\* trial declared checkpoint b with a higher step
C26_Witness ==
    /\ ResumePassedChecks
    /\ hist.result = "ok"
    /\ hist.call.label = None
    /\ trialState[ResumeTarget].pause_label = "a"
    /\ hist.value.selector = selector_text("checkpoint", "a")
    /\ \E i, j \in 1..Len(Declared) :
           /\ Declared[i].logical_name = "a" /\ Declared[i].step = <<1>>
           /\ Declared[j].logical_name = "b" /\ Declared[j].step = <<2>>

\* the last of the declared checkpoints that have the highest step
LastHighestStep ==
    CHOOSE i \in 1..Len(Declared) :
        HighestStep(i) /\ \A j \in (i + 1)..Len(Declared) : ~HighestStep(j)

\* C27: with no label and no stored pause_label, the selector is that of the
\* declared checkpoint with the highest step, and of the last of them in the
\* checkpoint list when several have the highest step.
C27_LaterOfTiedStepsWins ==
    /\ hist.op = "resolve_resume_selector"
    /\ LabelInForce = None
    /\ \E i \in 1..Len(Declared) : HighestStep(i)
    => /\ hist.result = "ok"
       /\ hist.value = selector_text("checkpoint",
                                     Declared[LastHighestStep].logical_name)

\* the selector of the fork_trial call that returned last, parsed
ParsedSelector == parse_fork_selector(hist.call.selector)

\* the declared checkpoint that this selector matches, <<>> when it matches
\* none
Matched ==
    IF ParsedSelector.ok THEN selected_checkpoint(ParsedSelector.value, Declared)
    ELSE <<>>

\* the path of the matched checkpoint exists under the parent trial directory
MatchedPathExists ==
    /\ Matched # <<>>
    /\ resolve_event_path_for_trial(Declared[Matched[1]].path,
                                    hist.call.trial_id) \in forks.existing

\* the fork_trial call that returned last named an existing parent trial and
\* a well-formed selector
ForkOfParent ==
    /\ hist.op = "fork"
    /\ trial_dir_exists(hist.call.trial_id)
    /\ ParsedSelector.ok

\* C28: a strict fork of a harness whose integration level is not sdk_full is
\* refused; a strict fork at level sdk_full fails with
\* strict_source_unavailable whenever its selector matches no declared
\* checkpoint or the path of the matched checkpoint does not exist under the
\* parent trial directory; in all these cases forks/ holds no child trial.
C28_StrictForkFails ==
    hist.op = "fork" /\ hist.call.strict =>
        /\ config.integration_level # "sdk_full" =>
               /\ hist.result = "strict_requires_sdk_full"
               /\ forks.dirs = <<>>
        /\ /\ config.integration_level = "sdk_full"
           /\ ForkOfParent
           /\ ~MatchedPathExists
           => /\ hist.result = "strict_source_unavailable"
              /\ forks.dirs = <<>>

\* a strict fork at level sdk_full selected the declared checkpoint b, whose
\* path does not exist, and failed
C28_Witness ==
    /\ ForkOfParent
    /\ hist.call.strict
    /\ config.integration_level = "sdk_full"
    /\ hist.call.selector = selector_text("checkpoint", "b")
    /\ Matched # <<>>
    /\ ~MatchedPathExists
    /\ hist.result = "strict_source_unavailable"
    /\ forks.dirs = <<>>

\* the ForkResult of the call that returned last with success
LastForkResult == IF hist.op = "resume" THEN hist.value.fork ELSE hist.value

\* C29: a non-strict fork whose selector matches no declared checkpoint, or
\* whose matched checkpoint has a path that does not exist, succeeds with
\* source_checkpoint null and fallback_mode input_only; in the result and in
\* the manifest of every fork, fallback_mode is checkpoint exactly when
\* source_checkpoint is not null, and input_only otherwise.
C29_NonStrictFallsBack ==
    /\ ForkOfParent /\ ~hist.call.strict /\ ~MatchedPathExists =>
           /\ hist.result = "ok"
           /\ hist.value.source_checkpoint = None
           /\ hist.value.fallback_mode = "input_only"
           /\ Len(forks.dirs) = 1
    /\ hist.op \in {"fork", "resume"} /\ hist.result = "ok" =>
           LET manifest == forks.dirs[Len(forks.dirs)].manifest
           IN /\ LastForkResult.fallback_mode \in {"checkpoint", "input_only"}
              /\ LastForkResult.fallback_mode = "checkpoint" <=>
                     LastForkResult.source_checkpoint # None
              /\ manifest.fallback_mode = LastForkResult.fallback_mode
              /\ manifest.source_checkpoint = LastForkResult.source_checkpoint

\* a non-strict fork selected the declared checkpoint a, whose path does not
\* exist, and ran the child trial from the input alone
C29_Witness ==
    /\ ForkOfParent
    /\ ~hist.call.strict
    /\ hist.call.selector = selector_text("checkpoint", "a")
    /\ Matched # <<>>
    /\ forks.existing = {}
    /\ hist.result = "ok"
    /\ hist.value.fallback_mode = "input_only"
    /\ forks.dirs[1].manifest.source_checkpoint = None
    /\ forks.dirs[1].trial_state.status \in {"completed", "failed"}

\* the declared checkpoints with a step of at most n
StepsUpTo(n) ==
    {i \in 1..Len(Declared) : Declared[i].step # <<>> /\ Declared[i].step[1] <= n}

\* the fork_trial call that returned last went by declared checkpoint i: it
\* took the path of i as its source when that path exists, and else failed
\* when strict and fell back to the input when not
ForkWentBy(i) ==
    LET resolved == resolve_event_path_for_trial(Declared[i].path,
                                                 hist.call.trial_id)
    IN IF resolved \in forks.existing
       THEN /\ hist.result = "ok"
            /\ hist.value.source_checkpoint = resolved
            /\ forks.dirs[1].checkpoint_selected = resolved
       ELSE IF hist.call.strict
       THEN hist.result = "strict_source_unavailable"
       ELSE hist.result = "ok" /\ hist.value.source_checkpoint = None

\* C30: a fork by step:N or event_seq:N goes by a declared checkpoint whose
\* step is the largest of the steps that are at most N; when no declared
\* checkpoint has a step of at most N the selector resolves to no checkpoint:
\* a strict fork fails and a non-strict fork has no source checkpoint.
C30_StepSelector ==
    /\ ForkOfParent
    /\ ParsedSelector.value.kind \in {"Step", "EventSeq"}
    /\ hist.call.strict => config.integration_level = "sdk_full"
    => LET n == ParsedSelector.value.n
       IN IF StepsUpTo(n) = {}
          THEN IF hist.call.strict
               THEN hist.result = "strict_source_unavailable"
               ELSE hist.result = "ok" /\ hist.value.source_checkpoint = None
          ELSE \E i \in StepsUpTo(n) :
                   /\ \A j \in StepsUpTo(n) :
                          Declared[j].step[1] <= Declared[i].step[1]
                   /\ ForkWentBy(i)

\* a fork by step:1 of a trial that declared a at step 1 and b at step 2 took
\* the directory of a as its source
C30_Witness ==
    /\ ForkOfParent
    /\ hist.call.selector = selector_text("step", "1")
    /\ Declared = <<CheckpointEntry("a", <<1>>), CheckpointEntry("b", <<2>>)>>
    /\ hist.result = "ok"
    /\ hist.value.source_checkpoint =
           resolve_event_path_for_trial(checkpoint_path("a"), ForkParent)
    /\ hist.value.fallback_mode = "checkpoint"

\* ------------------------------------------------------------------ C31
\* the step of the run loop that classifies a trial without a pause request
ClassifiedNotPaused == run.pc = "post" /\ run'.pc = "trial_end"

Called(operation, args) ==
    [op |-> operation, result |-> "called", call |-> args, value |-> None,
     before |-> <<>>]

\* the retry_on lists: up to MaxTriggers of the three triggers and a word
\* that is no trigger
RetryTriggers == {"error", "failure", "timeout", "crash"}
RetryLists == UNION {[1..n -> RetryTriggers] : n \in 0..MaxTriggers}

\* the outcomes of a trial_output.json and the exit statuses of a process
\* (4637-4641)
RetryOutcomes == {"success", "failure", "error", "timeout"}
RetryStatuses == {"0", "1", "signal"}

\* the arguments of the should_retry_outcome calls
ShouldRetryCalls ==
    {Called("should_retry_outcome", args) :
         args \in [outcome : RetryOutcomes, exit_status : RetryStatuses,
                   retry_on : RetryLists]}

\* one call of should_retry_outcome, as the tests at 6229-6270 call it
ShouldRetryOutcome ==
    /\ hist.op = "should_retry_outcome"
    /\ hist.result = "called"
    /\ hist' = Returned("should_retry_outcome", "ok", hist.call,
                        should_retry_outcome(hist.call.outcome,
                                             hist.call.exit_status,
                                             hist.call.retry_on), <<>>)
    /\ UNCHANGED <<lockFile, runControl, trialState, controlFile, eventLog,
                   clock, config, run, harness, pause, op, calls, evidence,
                   sched, workspace, forks, files>>

\* the versions of two stop actions written to one control file, the later
\* one with the larger seq, and of a checkpoint action
StaleVersion == sha256_bytes(ControlPayload(1, "stop", None, "lab_pause", 1))
WrittenVersion == sha256_bytes(ControlPayload(2, "stop", None, "lab_pause", 2))
AckVersions == {StaleVersion, WrittenVersion}
AckActions == {"checkpoint", "stop"}

\* lines of an event log: empty, blank and malformed text, events with all
\* their fields, and control_acks that lack a field
AckLogLines ==
    {[text |-> ""], [text |-> " "], [text |-> "{"]}
    \cup [event_type : {"control_ack", "checkpoint_written"},
          action_observed : AckActions, control_version : AckVersions]
    \cup {[event_type |-> "control_ack"]}
    \cup [event_type : {"control_ack"}, action_observed : AckActions]
    \cup [action_observed : AckActions, control_version : AckVersions]

AckLogs == UNION {[1..n -> AckLogLines] : n \in 0..MaxLines}

\* the arguments of the has_control_ack calls
HasControlAckCalls ==
    {Called("has_control_ack", args) :
         args \in [log : AckLogs, action : AckActions,
                   control_version : AckVersions]}

\* one call of has_control_ack, as the test at 5302-5326 calls it
HasControlAck ==
    /\ hist.op = "has_control_ack"
    /\ hist.result = "called"
    /\ hist' = Returned("has_control_ack", "ok", hist.call,
                        has_control_ack(hist.call.log, hist.call.action,
                                        hist.call.control_version), <<>>)
    /\ UNCHANGED <<lockFile, runControl, trialState, controlFile, eventLog,
                   clock, config, run, harness, pause, op, calls, evidence,
                   sched, workspace, forks, files>>

\* a string as the sequence of its characters: a letter, the underscore,
\* which sanitize_for_fs keeps beside letters, digits and '-', and a dot
IdChars == {"a", "_", "."}
IdStrings == UNION {[1..n -> IdChars] : n \in 0..MaxChars}

\* sanitize_for_fs (4157-4171)
sanitize_for_fs(raw) ==
    LET out == [i \in 1..Len(raw) |->
                   IF raw[i] \in {"a", "-", "_"} THEN raw[i] ELSE "_"]
    IN IF out = <<>> THEN <<"c", "h", "a", "i", "n">> ELSE out

\* 1593-1594: chain_key and chain_fs_key of a variant id and a chain label
chain_fs_key(variant_id, chain_label) ==
    sanitize_for_fs(variant_id \o <<":", ":">> \o chain_label)

\* 1706: the directory of a chain under the evidence directory of the run
chains_dir(variant_id, chain_label) ==
    <<"evidence", "chains", chain_fs_key(variant_id, chain_label)>>

\* the variant ids and chain labels of two trials of one run
ChainsDirCalls ==
    {Called("chains_dir", args) :
         args \in [variant_id : IdStrings, chain_label : IdStrings,
                   other_variant_id : IdStrings,
                   other_chain_label : IdStrings]}

\* 1593-1594, 1706-1707: the chain directories of the two trials
ChainsDir ==
    /\ hist.op = "chains_dir"
    /\ hist.result = "called"
    /\ hist' = Returned("chains_dir", "ok", hist.call,
                        <<chains_dir(hist.call.variant_id,
                                     hist.call.chain_label),
                          chains_dir(hist.call.other_variant_id,
                                     hist.call.other_chain_label)>>, <<>>)
    /\ UNCHANGED <<lockFile, runControl, trialState, controlFile, eventLog,
                   clock, config, run, harness, pause, op, calls, evidence,
                   sched, workspace, forks, files>>

\* the call that is about to be made
FunctionCalled(call) ==
    \/ call \in ShouldRetryCalls
    \/ call \in HasControlAckCalls
    \/ call \in ChainsDirCalls

\* no run is in progress; one function is about to be called
FunctionInit ==
    /\ lockFile = FALSE
    /\ runControl = NoRunControl
    /\ trialState = [t \in TrialIds |-> NoTrialState]
    /\ controlFile = [p \in ControlPaths |-> NoControlFile]
    /\ eventLog = [t \in TrialIds |-> <<>>]
    /\ clock = [p \in ControlPaths |-> 1]
    /\ config = CHOOSE e \in SingleVariantExperiments(NumSlots) : TRUE
    /\ run = RunInit
    /\ harness = HarnessInit
    /\ pause = PauseIdle
    /\ op = [k \in OpKinds |-> "idle"]
    /\ calls = 0
    /\ FunctionCalled(hist)
    /\ evidence = <<>>
    /\ sched = NoSchedule
    /\ workspace = EmptyDir
    /\ forks = NoForks
    /\ files = NoFiles

FunctionNext ==
    \/ ShouldRetryOutcome
    \/ HasControlAck
    \/ ChainsDir

FunctionSpec == FunctionInit /\ [][FunctionNext]_vars

\* ------------------------------------------------------------------ C32
\* the should_retry_outcome call that returned
RetryCall == hist.call

\* C32: with an empty retry_on, should_retry_outcome is true exactly when the
\* exit status is not 0 or the outcome is error; with a non-empty retry_on it
\* is true exactly when some listed trigger applies: error with outcome
\* error, failure with an exit status other than 0, timeout with outcome
\* timeout
C32_RetryTriggers ==
    (hist.op = "should_retry_outcome" /\ hist.result = "ok") =>
        LET listed == {RetryCall.retry_on[i] :
                           i \in 1..Len(RetryCall.retry_on)}
            applies(trigger) ==
                \/ trigger = "error" /\ RetryCall.outcome = "error"
                \/ trigger = "failure" /\ RetryCall.exit_status # "0"
                \/ trigger = "timeout" /\ RetryCall.outcome = "timeout"
        IN IF RetryCall.retry_on = <<>>
           THEN hist.value <=> (RetryCall.exit_status # "0"
                                \/ RetryCall.outcome = "error")
           ELSE hist.value <=> \E trigger \in listed : applies(trigger)

\* a call with two triggers returned true on account of the second one
C32_Witness ==
    /\ hist.op = "should_retry_outcome"
    /\ hist.result = "ok"
    /\ RetryCall.retry_on = <<"error", "timeout">>
    /\ RetryCall.outcome = "timeout"
    /\ RetryCall.exit_status = "0"
    /\ hist.value

\* ------------------------------------------------------------------ C33
\* the has_control_ack call that returned
AckCall == hist.call

\* line i of the log of that call is a parsable control_ack for the
\* requested action with the requested control_version
MatchingAck(i) ==
    LET line == AckCall.log[i] IN
    /\ "text" \notin DOMAIN line
    /\ {"event_type", "action_observed", "control_version"}
           \subseteq DOMAIN line
    /\ line.event_type = "control_ack"
    /\ line.action_observed = AckCall.action
    /\ line.control_version = AckCall.control_version

\* C33: has_control_ack returns true exactly when the log holds a parsable
\* line with event_type control_ack whose action_observed is the requested
\* action and whose control_version is the requested version; empty and
\* malformed lines are skipped, and an ack for another action or with another
\* control_version does not match
C33_AckMatcher ==
    (hist.op = "has_control_ack" /\ hist.result = "ok") =>
        (hist.value <=> \E i \in 1..Len(AckCall.log) : MatchingAck(i))

\* a log with a malformed line and a stale ack did not match; a log with a
\* blank line before the ack of the written version matched
C33_Witness ==
    /\ hist.op = "has_control_ack"
    /\ hist.result = "ok"
    /\ AckCall.action = "stop"
    /\ AckCall.control_version = WrittenVersion
    /\ \/ /\ AckCall.log =
               <<[text |-> "{"],
                 [event_type |-> "control_ack", action_observed |-> "stop",
                  control_version |-> StaleVersion]>>
          /\ ~hist.value
       \/ /\ AckCall.log =
               <<[text |-> " "],
                 [event_type |-> "control_ack", action_observed |-> "stop",
                  control_version |-> WrittenVersion]>>
          /\ hist.value

\* ------------------------------------------- atomic_write_bytes on its own
\* the path that is written, here the control file of a trial, and the
\* temporary file beside it (211-215)
WritePath == control_path_host(TrialIdOf(1))
TmpPath == WritePath \o ".tmp"
WritePaths == {WritePath, TmpPath}

\* the byte strings: up to MaxBytes bytes
ByteStrings == UNION {[1..n -> {"x", "y"}] : n \in 0..MaxBytes}

\* the locals of an atomic_write_bytes call and the contents it found at path
AtomicWriteLocals(pc, bytes, written, previous) ==
    [pc |-> pc, bytes |-> bytes, written |-> written, previous |-> previous]

\* a sync that makes nothing durable
sync_nothing(file, durable) == durable

\* file.sync_all() (218): the bytes of the open file are on disk; whether its
\* directory entry is, is left as it was
sync_all(file, durable) == {f \in durable : ~f.exists} \cup {file}

\* fs::rename(tmp, path) (219) as readers see it: path holds the file that
\* tmp held, in one step
rename_visible(visible) ==
    [visible EXCEPT ![WritePath] = visible[TmpPath], ![TmpPath] = NoFile]

\* fs::rename on disk: until the directory is synced the disk may hold the
\* old entries or the new ones, the renamed file with what is durable of it
rename_durable(durable) ==
    [durable EXCEPT
        ![WritePath] = @ \cup {f \in durable[TmpPath] : f.exists},
        ![TmpPath] = @ \cup {NoFile}]

\* path holds some complete bytes or does not exist; no write is in progress
AtomicWriteInit ==
    /\ lockFile = FALSE
    /\ runControl = NoRunControl
    /\ trialState = [t \in TrialIds |-> NoTrialState]
    /\ controlFile = [p \in ControlPaths |-> NoControlFile]
    /\ eventLog = [t \in TrialIds |-> <<>>]
    /\ clock = [p \in ControlPaths |-> 1]
    /\ config = CHOOSE e \in SingleVariantExperiments(NumSlots) : TRUE
    /\ run = RunInit
    /\ harness = HarnessInit
    /\ pause = PauseIdle
    /\ op = [k \in OpKinds |-> "idle"]
    /\ calls = 0
    /\ hist = NoReturn
    /\ evidence = <<>>
    /\ sched = NoSchedule
    /\ workspace = EmptyDir
    /\ forks = NoForks
    /\ \E previous \in {NoFile} \cup {File(b) : b \in ByteStrings} :
          files = [visible |-> [p \in WritePaths |->
                                   IF p = WritePath THEN previous ELSE NoFile],
                   durable |-> [p \in WritePaths |->
                                   IF p = WritePath THEN {previous}
                                   ELSE {NoFile}],
                   call |-> AtomicWriteLocals("idle", <<>>, 0, previous)]

\* the steps below leave every variable but files and hist
AtomicWriteFrame ==
    UNCHANGED <<lockFile, runControl, trialState, controlFile, eventLog,
                clock, config, run, harness, pause, op, calls, evidence,
                sched, workspace, forks>>

\* 205-216: atomic_write_bytes(path, bytes) is called and creates the
\* temporary file, empty
AtomicWriteCreate(bytes) ==
    /\ files.call.pc = "idle"
    /\ files' = [files EXCEPT
            !.visible[TmpPath] = File(<<>>),
            !.durable[TmpPath] = @ \cup {File(<<>>)},
            !.call = AtomicWriteLocals("write", bytes, 0,
                                       files.visible[WritePath])]
    /\ UNCHANGED hist
    /\ AtomicWriteFrame

\* 217: write_all writes the next byte to the temporary file; the disk may
\* take it at any time
AtomicWriteChunk ==
    /\ files.call.pc = "write"
    /\ files.call.written < Len(files.call.bytes)
    /\ LET written == files.call.written + 1
           file == File(SubSeq(files.call.bytes, 1, written))
       IN files' = [files EXCEPT
              !.visible[TmpPath] = file,
              !.durable[TmpPath] = @ \cup {file},
              !.call.written = written]
    /\ UNCHANGED hist
    /\ AtomicWriteFrame

\* 218: every byte is written; sync_all
AtomicWriteSync ==
    /\ files.call.pc = "write"
    /\ files.call.written = Len(files.call.bytes)
    /\ files' = [files EXCEPT
            !.durable[TmpPath] = sync_all(files.visible[TmpPath], @),
            !.call.pc = "rename"]
    /\ UNCHANGED hist
    /\ AtomicWriteFrame

\* 219: rename
AtomicWriteRename ==
    /\ files.call.pc = "rename"
    /\ files' = [files EXCEPT
            !.visible = rename_visible(@),
            !.durable = rename_durable(@),
            !.call.pc = "dirsync"]
    /\ UNCHANGED hist
    /\ AtomicWriteFrame

\* 220-225: the directory is synced if it can be opened, errors are ignored,
\* and the call returns Ok
AtomicWriteDirSync(synced) ==
    /\ files.call.pc = "dirsync"
    /\ files' = [files EXCEPT
            !.durable = IF synced
                        THEN [p \in WritePaths |-> {files.visible[p]}]
                        ELSE @,
            !.call.pc = "returned"]
    /\ UNCHANGED hist
    /\ AtomicWriteFrame

\* a reader (the harness for the control file) reads path; hist keeps what it
\* saw and where the writer was
ReadPath ==
    /\ hist' = Returned("read", "ok", files.call, files.visible[WritePath],
                        <<>>)
    /\ hist' # hist
    /\ UNCHANGED files
    /\ AtomicWriteFrame

\* the writing process is killed, or a step of it fails, between two steps
WriterCrash ==
    /\ files.call.pc \in {"write", "rename", "dirsync"}
    /\ files' = [files EXCEPT !.call.pc = "killed"]
    /\ UNCHANGED hist
    /\ AtomicWriteFrame

\* the machine stops: readers then see of each path one of the files that
\* the disk may hold
SystemCrash ==
    /\ files.call.pc # "crashed"
    /\ \E visible \in [WritePaths -> UNION {files.durable[p] : p \in WritePaths}] :
          /\ \A p \in WritePaths : visible[p] \in files.durable[p]
          /\ files' = [files EXCEPT
                  !.visible = visible,
                  !.durable = [p \in WritePaths |-> {visible[p]}],
                  !.call.pc = "crashed"]
    /\ UNCHANGED hist
    /\ AtomicWriteFrame

AtomicWriteNext ==
    \/ \E bytes \in ByteStrings : AtomicWriteCreate(bytes)
    \/ AtomicWriteChunk
    \/ AtomicWriteSync
    \/ AtomicWriteRename
    \/ \E synced \in BOOLEAN : AtomicWriteDirSync(synced)
    \/ ReadPath
    \/ WriterCrash
    \/ SystemCrash

AtomicWriteSpec == AtomicWriteInit /\ [][AtomicWriteNext]_vars

\* ------------------------------------------------------------------ C34
\* C34: a reader of path, while atomic_write_bytes(path, new) runs beside it
\* or after the writer or the machine crashed at any step, sees the complete
\* previous contents (or no file, if there was none) or the complete new
\* bytes, and before the call the previous contents
C34_ReaderSeesOldOrNew ==
    hist.op = "read" =>
        /\ hist.value \in {hist.call.previous, File(hist.call.bytes)}
        /\ hist.call.pc = "idle" => hist.value = hist.call.previous

\* a reader saw the previous contents while the temporary file held a part
\* of the new bytes; later the machine crashed and path holds the new bytes
C34_Witness ==
    /\ hist.op = "read"
    /\ hist.call.pc = "write"
    /\ hist.call.written = 1
    /\ Len(hist.call.bytes) = 2
    /\ hist.value = hist.call.previous
    /\ hist.value.exists
    /\ files.call.pc = "crashed"
    /\ files.visible[WritePath] = File(files.call.bytes)
    /\ files.call.previous # File(files.call.bytes)

\* ------------------------------------ run loop with the trial output file
\* experiments of one trial with one or LoopAttempts attempts
OutputExperiments ==
    [integration_level : {"cli_basic"}, events_path : {FALSE},
     variant_count : {1}, task_count : {1}, replications : {1},
     scheduling : {"variant_sequential"}, random_seed : {1},
     retry_max_attempts : {1, LoopAttempts},
     retry_on : {<<>>, <<"error">>, <<"failure">>},
     pruning_max_consecutive_failures : {<<>>},
     state : {"isolate_per_trial"}, tasks : {<<PlainTask>>},
     harness_write : {"none"}]

OutputInit ==
    /\ BeforeRun(1, OutputExperiments)
    /\ sched = NoSchedule

\* run_experiment_with_behavior with harnesses that deliver their result in
\* any of the three ways, on every attempt anew
OutputNext ==
    \/ RunStart
    \/ RunDispatch
    \/ RunActivate
    \/ RunWriteControlFile
    \/ RunSpawn
    \/ \E status \in ExitStatuses, delivery \in Deliveries,
          produced \in Outcomes : RunAttemptOutput(status, delivery, produced)
    \/ RunClassify
    \/ RunTrialEnd
    \/ RunFinalize
    \/ RunAbort

OutputSpec == OutputInit /\ [][OutputNext]_vars

\* ------------------------------------------------------------------ C35
\* the document that the last harness exit stands for: what the harness
\* declared, or the runner's error document if it declared nothing
FinalAttemptOutput ==
    IF hist.call.delivery = "none" THEN fallback_output
    ELSE trial_output_v1(hist.result)

\* C35: when the retry loop is left, the trial_output.json that classifies
\* the trial and is recorded as evidence is the output of the final attempt,
\* never a file left by an earlier attempt
C35_FinalAttemptOutput ==
    (run.pc = "post" /\ hist.op = "harness") =>
        /\ files.trial_output = File(FinalAttemptOutput)
        /\ run.outcome = FinalAttemptOutput.outcome

\* ------------------------------------------------------------------ C36
\* C36: once run_control.json names a trial and its control path as active,
\* a checkpoint or stop action that pause_run wrote to that control file is
\* never replaced by the continue action (seq 0) that the run loop writes
\* when the trial starts
C36_PauseActionKept ==
    [][\A t \in TrialIds :
         LET path == control_path_host(t) IN
         (/\ runControl.active_trial_id = t
          /\ runControl.active_control_path = path
          /\ controlFile[path].requested_by = "lab_pause"
          /\ controlFile[path].action \in {"checkpoint", "stop"}) =>
            ~(/\ controlFile'[path].requested_by = "run_loop"
              /\ controlFile'[path].action = "continue")]_vars

\* ------------------------------------- pause_run beside a trial with retries
\* a run of one trial with two attempts whose harness writes events
RetryPauseExperiments ==
    [integration_level : {"cli_events"}, events_path : {TRUE},
     variant_count : {1}, task_count : {1}, replications : {1},
     scheduling : {"variant_sequential"}, random_seed : {1},
     retry_max_attempts : {2}, retry_on : {<<>>, <<"failure">>},
     pruning_max_consecutive_failures : {<<>>},
     state : {"isolate_per_trial"}, tasks : {<<PlainTask>>},
     harness_write : {"none"}]

RetryPauseInit ==
    /\ BeforeRun(1, RetryPauseExperiments)
    /\ sched = NoSchedule

\* run_experiment_with_behavior, the harness and pause_run
RetryPauseNext == StopNext

RetryPauseSpec == RetryPauseInit /\ [][RetryPauseNext]_vars

\* ------------------------------------------------------------------ C37
\* the control file of trial n holds a stop requested by pause_run, and a
\* harness of that trial has exited
StoppedAndExited(n) ==
    LET ctl == controlFile[control_path_host(TrialIdOf(n))] IN
    /\ ctl.action = "stop"
    /\ ctl.requested_by = "lab_pause"
    /\ ~harness.alive
    /\ n < run.trial_index \/ run.spawned > 0

\* C37: once a stop requested by lab_pause is in the control file of the
\* active trial and the harness has exited, the run loop spawns no harness
\* any more in that run: no retry attempt of the trial, whatever the exit
\* status and the outcome, and no trial of a later slot
C37_NoSpawnAfterStop ==
    [][(\E n \in 1..run.trial_index : StoppedAndExited(n)) =>
           ~harness'.alive]_vars

\* ------------------------------------------------------------------ C38
\* the run function has returned Ok
RunReturnedOk == run.pc = "returned" /\ run.result = "ok"

\* run_control.json says that the run is paused and names as active a trial
\* whose state is paused
PausedInTrial ==
    /\ runControl.status = "paused"
    /\ runControl.active_trial_id \in DOMAIN trialState
    /\ trialState[runControl.active_trial_id].status = "paused"

\* C38: when pause_run has just returned success and the run function has
\* returned, in whichever order, run_control.json has status paused and
\* names the paused trial as active_trial_id (so resume_run without a trial
\* id does not fail with resume_no_active_trial)
C38_PausedRunNamesTrial ==
    [][(/\ \/ hist.op = "pause" /\ hist.result = "ok"
           \/ hist'.op = "pause" /\ hist'.result = "ok"
        /\ RunReturnedOk') => PausedInTrial']_vars

\* ------------------------------------------------------------------ C39
\* no pause_run call is in flight and none has recorded the trial as paused
\* (a successful pause_run writes the trial state before it returns)
NoPauseSucceeds(t) ==
    /\ pause.pc = "idle"
    /\ trialState[t].status # "paused"

\* C39: the run loop marks a trial and its run paused only if a pause_run
\* call on that run returned success; the stop action left behind by a
\* pause_run that failed with control_ack_missing does not make the run loop
\* mark them paused later
C39_PausedOnlyByPauseSuccess ==
    [][(run.pc = "post" /\ NoPauseSucceeds(CurrentTrial)) =>
           /\ run'.pc # "mark_paused"
           /\ trialState'[CurrentTrial].status # "paused"]_vars

\* ------------------------------------------------------------------ C40
\* C40: two trials of one run whose chain keys (variant_id::chain_label)
\* differ have different directories under evidence/chains: sanitize_for_fs
\* maps distinct chain keys to distinct directory names
C40_DistinctChainDirs ==
    (hist.op = "chains_dir" /\ hist.result = "ok") =>
        LET call == hist.call IN
        (<<call.variant_id, call.chain_label>> #
             <<call.other_variant_id, call.other_chain_label>>) =>
            hist.value[1] # hist.value[2]

====
